---- MODULE Spec2Model ----
(***************************************************************************)
(* Model of the workshop application app.py: the TinyDB-backed document    *)
(* store with its global ID counter and process-wide lock, and the request *)
(* handlers that create, edit and delete clients, vehicles, jobs, notes    *)
(* and quotes.  Every request runs in a thread of its own; a thread's      *)
(* steps are the handler's reads of the store and its store calls; each    *)
(* `with _db_lock:` block is an acquire step followed by the steps of its  *)
(* body, the last of which releases the lock.                              *)
(***************************************************************************)
EXTENDS Integers, Sequences, FiniteSets, TLC

\* Bounds of the model.
NumThreads == 2
MaxId == 3
MaxIdSeq == 7
MaxTime == 1

Threads == 1..NumThreads
Times == 1..MaxTime

\* Python's None, for the integer and timestamp fields that may hold it.
None == -1

\* Values of the 'seq' record.
SEQ_KEY == "global_seq"
SeqStart == 1

VARIABLES
    db,      \* table name -> list of documents, in insertion order
    lock,    \* _db_lock: 0 when free, else the thread that holds it
    pc,      \* thread -> position in its handler
    req,     \* thread -> the request it serves (handler and form values)
             \*           and, for a read, what the read returned
    call,    \* thread -> arguments of the store call in progress
    nid,     \* thread -> the value _next_id read under the lock
    rv,      \* thread -> the id the last insert returned
    res,     \* thread -> outcome of the handler
    vs,      \* thread -> vehicles listed by a cascade deletion
    vi,      \* thread -> index of the vehicle the cascade is at
    js,      \* thread -> jobs listed by a cascade deletion
    ji,      \* thread -> index of the job the cascade is at
    issued   \* the ids _next_id has returned, in order

vars == <<db, lock, pc, req, call, nid, rv, res, vs, vi, js, ji, issued>>

\* The locals of the cascade deletions.
casc == <<vs, vi, js, ji>>

TABLES == {"users", "clients", "vehicles", "jobs", "notes", "seq", "quotes"}

----------------------------------------------------------------------------
\* Strings that the handlers normalise: sequences of characters.

UpperChar(c) == IF c = "a" THEN "A" ELSE IF c = "b" THEN "B" ELSE c

Upper(s) == [i \in DOMAIN s |-> UpperChar(s[i])]

\* The whitespace that strip() removes: the blank and the end of a line.
Space == {" ", "\n"}

RECURSIVE LStrip(_)
LStrip(s) == IF s # <<>> /\ Head(s) \in Space THEN LStrip(Tail(s)) ELSE s

RECURSIVE RStrip(_)
RStrip(s) ==
    IF s # <<>> /\ s[Len(s)] \in Space
    THEN RStrip(SubSeq(s, 1, Len(s) - 1))
    ELSE s

Strip(s) == RStrip(LStrip(s))

\* s.splitlines(): the lines of a text, without their line ends; a line end
\* at the end of the text opens no further line.
RECURSIVE SplitLines(_)
SplitLines(s) ==
    IF s = <<>> THEN <<>>
    ELSE LET ends == {i \in DOMAIN s : s[i] = "\n"}
         IN IF ends = {} THEN <<s>>
            ELSE LET i == CHOOSE e \in ends : \A o \in ends : e <= o
                 IN <<SubSeq(s, 1, i - 1)>>
                        \o SplitLines(SubSeq(s, i + 1, Len(s)))

\* [x.strip() for x in s.splitlines() if x.strip()]
StrippedLines(s) ==
    LET lines == SplitLines(s)
    IN SelectSeq([i \in DOMAIN lines |-> Strip(lines[i])],
                 LAMBDA x : x # <<>>)

\* "\n".join(lines)
RECURSIVE Join(_)
Join(lines) ==
    IF lines = <<>> THEN <<>>
    ELSE IF Len(lines) = 1 THEN lines[1]
    ELSE lines[1] \o <<"\n">> \o Join(Tail(lines))

DigitChars == <<"0", "1", "2", "3", "4", "5", "6", "7", "8", "9">>

\* str(n) of a natural number.
RECURSIVE Decimal(_)
Decimal(n) ==
    IF n < Len(DigitChars) THEN <<DigitChars[n + 1]>>
    ELSE Append(Decimal(n \div Len(DigitChars)),
                DigitChars[(n % Len(DigitChars)) + 1])

\* Python truthiness of an optional integer: None and 0 are false.
Falsy(x) == x = None \/ x = 0

----------------------------------------------------------------------------
\* The document store.

\* Query().id == doc_id on a document.
MatchesId(doc, doc_id) == "id" \in DOMAIN doc /\ doc.id = doc_id

SeqRows(d) == SelectSeq(d["seq"], LAMBDA r : r.key = SEQ_KEY)

\* The 'seq' table once _next_id has made sure that the counter row exists.
EnsureSeq(d) ==
    IF SeqRows(d) = <<>>
    THEN [d EXCEPT !["seq"] = Append(@, [key |-> SEQ_KEY, value |-> SeqStart])]
    ELSE d

\* The value _next_id reads and returns.
NextIdValue(d) == SeqRows(EnsureSeq(d))[1].value

BumpSame(n) == n

\* The value _next_id writes back for the value n it read.
Bump(n) == n + 1

\* The store after _next_id's update of the counter row.
NextIdStore(d, n) ==
    [d EXCEPT !["seq"] =
        [i \in DOMAIN d["seq"] |->
            IF d["seq"][i].key = SEQ_KEY
            THEN [d["seq"][i] EXCEPT !.value = Bump(n)]
            ELSE d["seq"][i]]]

TableInsertFront(d, table, doc) == [d EXCEPT ![table] = <<doc>> \o @]

\* table.insert(doc)
TableInsert(d, table, doc) == [d EXCEPT ![table] = Append(@, doc)]

\* dict.update(patch) on a document.
Merge(doc, patch) ==
    [f \in DOMAIN doc \cup DOMAIN patch |->
        IF f \in DOMAIN patch THEN patch[f] ELSE doc[f]]

TableUpdateAll(d, table, doc_id, patch) ==
    [d EXCEPT ![table] = [i \in DOMAIN d[table] |-> Merge(d[table][i], patch)]]

\* table.update(patch, Query().id == doc_id)
TableUpdate(d, table, doc_id, patch) ==
    [d EXCEPT ![table] =
        [i \in DOMAIN d[table] |->
            IF MatchesId(d[table][i], doc_id)
            THEN Merge(d[table][i], patch)
            ELSE d[table][i]]]

TableRemoveCascade(d, table, doc_id) ==
    [t \in DOMAIN d |->
        IF t = table THEN SelectSeq(d[t], LAMBDA x : ~MatchesId(x, doc_id))
        ELSE IF t = "vehicles" /\ table = "clients"
        THEN SelectSeq(d[t], LAMBDA x : x.client_id # doc_id)
        ELSE IF t = "jobs" /\ table = "vehicles"
        THEN SelectSeq(d[t], LAMBDA x : x.vehicle_id # doc_id)
        ELSE d[t]]

TableRemoveWithNotes(d, table, doc_id) ==
    [d EXCEPT ![table] = SelectSeq(@, LAMBDA x : ~MatchesId(x, doc_id)),
              !["notes"] = SelectSeq(@, LAMBDA n : n.job_id # doc_id)]

\* table.remove(Query().id == doc_id)
TableRemove(d, table, doc_id) ==
    [d EXCEPT ![table] = SelectSeq(@, LAMBDA x : ~MatchesId(x, doc_id))]

\* all_(table)
all_(table) == db[table]

\* get_(table, doc_id): the list of the document found, empty for None.
get_(table, doc_id) ==
    LET m == SelectSeq(db[table], LAMBDA x : MatchesId(x, doc_id))
    IN IF m = <<>> THEN <<>> ELSE <<m[1]>>

\* The conjunction of Query().k == v over the pairs of `where`, on a document.
MatchesAll(doc, where) ==
    \A k \in DOMAIN where : k \in DOMAIN doc /\ doc[k] = where[k]

\* find(table, **where)
find(table, where) ==
    IF DOMAIN where = {}
    THEN <<>>
    ELSE SelectSeq(db[table], LAMBDA x : MatchesAll(x, where))

Range(s) == {s[i] : i \in DOMAIN s}

\* The ids of a list of documents.
IdsIn(docs) == {docs[i].id : i \in DOMAIN docs}

----------------------------------------------------------------------------
\* The state after the module has been imported: every table exists, the
\* counter row has been created and the admin user has taken the first id.

NoReq == [op |-> "none"]
NoCall == [kind |-> "none"]

Init ==
    /\ db = [t \in TABLES |->
                IF t = "users"
                THEN <<[id |-> SeqStart, username |-> "admin", role |-> "admin"]>>
                ELSE IF t = "seq"
                THEN <<[key |-> SEQ_KEY, value |-> SeqStart + 1]>>
                ELSE <<>>]
    /\ lock = 0
    /\ pc = [t \in Threads |-> "idle"]
    /\ req = [t \in Threads |-> NoReq]
    /\ call = [t \in Threads |-> NoCall]
    /\ nid = [t \in Threads |-> None]
    /\ rv = [t \in Threads |-> None]
    /\ res = [t \in Threads |-> "none"]
    /\ vs = [t \in Threads |-> <<>>]
    /\ vi = [t \in Threads |-> 0]
    /\ js = [t \in Threads |-> <<>>]
    /\ ji = [t \in Threads |-> 0]
    /\ issued = <<SeqStart>>

----------------------------------------------------------------------------
\* Store calls.  A handler that calls insert, update or remove fills in
\* call[t] and moves to the call's first position; the call's last step
\* moves on to call[t].ret.

CounterValue == NextIdValue(db)

\* Requests that insert are accepted while the counter is within the bound.
WithinBound(cap) == CounterValue <= cap

InsertCall(table, doc, ret) ==
    [kind |-> "insert", table |-> table, doc |-> doc, ret |-> ret]

UpdateCall(table, doc_id, patch, ret) ==
    [kind |-> "update", table |-> table, id |-> doc_id, patch |-> patch,
     ret |-> ret]

RemoveCall(table, doc_id, ret) ==
    [kind |-> "remove", table |-> table, id |-> doc_id, ret |-> ret]

FirstPc(c) ==
    IF c.kind = "insert" THEN "nid_lock"
    ELSE IF c.kind = "update" THEN "upd_lock" ELSE "rm_lock"

LockPcs == {"nid_lock", "ins_lock", "upd_lock", "rm_lock"}

\* The positions inside a `with _db_lock:` block.
BodyPcs == {"nid_read", "nid_write", "ins_body", "upd_body", "rm_body"}

BodyOf(p) ==
    IF p = "nid_lock" THEN "nid_read"
    ELSE IF p = "ins_lock" THEN "ins_body"
    ELSE IF p = "upd_lock" THEN "upd_body" ELSE "rm_body"

AcquireAlways(t) == TRUE

\* threading.Lock.acquire: blocks while the lock is held.
CanAcquire(t) == lock = 0

\* `with _db_lock:` entered.
Acquire(t) ==
    /\ pc[t] \in LockPcs
    /\ CanAcquire(t)
    /\ lock' = t
    /\ pc' = [pc EXCEPT ![t] = BodyOf(pc[t])]
    /\ UNCHANGED <<db, req, call, nid, rv, res, vs, vi, js, ji, issued>>

\* The handler's outcome once the store call that ends it has returned.
ResAfter(t) == IF call[t].ret = "done" THEN "ok" ELSE res[t]

\* _next_id, under the lock: the counter row is read (and created when it
\* is missing).
NextIdRead(t) ==
    /\ pc[t] = "nid_read"
    /\ nid' = [nid EXCEPT ![t] = NextIdValue(db)]
    /\ db' = EnsureSeq(db)
    /\ pc' = [pc EXCEPT ![t] = "nid_write"]
    /\ UNCHANGED <<lock, req, call, rv, res, vs, vi, js, ji, issued>>

NextIdWriteHolding(t) ==
    /\ pc[t] = "nid_write"
    /\ db' = NextIdStore(db, nid[t])
    /\ issued' = Append(issued, nid[t])
    /\ pc' = [pc EXCEPT ![t] = "ins_lock"]
    /\ UNCHANGED <<lock, req, call, nid, rv, res, vs, vi, js, ji>>

\* _next_id, under the lock: the counter row is written back, the lock is
\* released and the value read is returned.
NextIdWrite(t) ==
    /\ pc[t] = "nid_write"
    /\ db' = NextIdStore(db, nid[t])
    /\ issued' = Append(issued, nid[t])
    /\ lock' = 0
    /\ pc' = [pc EXCEPT ![t] = "ins_lock"]
    /\ UNCHANGED <<req, call, nid, rv, res, vs, vi, js, ji>>

\* insert's body: store the document under the id it was given, release.
Insert(t) ==
    /\ pc[t] = "ins_body"
    /\ db' = TableInsert(db, call[t].table,
                         Merge(call[t].doc, [id |-> nid[t]]))
    /\ rv' = [rv EXCEPT ![t] = nid[t]]
    /\ nid' = [nid EXCEPT ![t] = None]
    /\ lock' = 0
    /\ pc' = [pc EXCEPT ![t] = call[t].ret]
    /\ res' = [res EXCEPT ![t] = ResAfter(t)]
    /\ call' = [call EXCEPT ![t] = NoCall]
    /\ UNCHANGED <<req, vs, vi, js, ji, issued>>

\* update's body.
Update(t) ==
    /\ pc[t] = "upd_body"
    /\ db' = TableUpdate(db, call[t].table, call[t].id, call[t].patch)
    /\ lock' = 0
    /\ pc' = [pc EXCEPT ![t] = call[t].ret]
    /\ res' = [res EXCEPT ![t] = ResAfter(t)]
    /\ call' = [call EXCEPT ![t] = NoCall]
    /\ UNCHANGED <<req, nid, rv, vs, vi, js, ji, issued>>

\* remove's body.
Remove(t) ==
    /\ pc[t] = "rm_body"
    /\ db' = TableRemove(db, call[t].table, call[t].id)
    /\ lock' = 0
    /\ pc' = [pc EXCEPT ![t] = call[t].ret]
    /\ res' = [res EXCEPT ![t] = ResAfter(t)]
    /\ call' = [call EXCEPT ![t] = NoCall]
    /\ UNCHANGED <<req, nid, rv, vs, vi, js, ji, issued>>

\* The handler has returned its response; the thread is free again.
Return(t) ==
    /\ pc[t] = "done"
    /\ pc' = [pc EXCEPT ![t] = "idle"]
    /\ req' = [req EXCEPT ![t] = NoReq]
    /\ res' = [res EXCEPT ![t] = "none"]
    /\ rv' = [rv EXCEPT ![t] = None]
    /\ vs' = [vs EXCEPT ![t] = <<>>]
    /\ vi' = [vi EXCEPT ![t] = 0]
    /\ js' = [js EXCEPT ![t] = <<>>]
    /\ ji' = [ji EXCEPT ![t] = 0]
    /\ UNCHANGED <<db, lock, call, nid, issued>>

\* A handler step that ends the request with outcome r, without a store call.
Finish(t, r) ==
    /\ pc' = [pc EXCEPT ![t] = "done"]
    /\ res' = [res EXCEPT ![t] = r]
    /\ UNCHANGED <<db, lock, call, nid, rv, issued>>

\* A handler step that goes on to the store call c.
Invoke(t, c) ==
    /\ call' = [call EXCEPT ![t] = c]
    /\ pc' = [pc EXCEPT ![t] = FirstPc(c)]
    /\ UNCHANGED <<db, lock, nid, rv, res, issued>>

\* A call of find: the request records the rows it returned.
FindCall(t, Tables, Wheres) ==
    /\ pc[t] = "idle"
    /\ UNCHANGED casc
    /\ \E table \in Tables, where \in Wheres :
        /\ req' = [req EXCEPT ![t] =
                     [op |-> "find", table |-> table, where |-> where,
                      rows |-> find(table, where)]]
        /\ Finish(t, "ok")

\* A call of get_: the request records the document it returned, as a list
\* that is empty for None.
GetCall(t, Tables, Ids) ==
    /\ pc[t] = "idle"
    /\ UNCHANGED casc
    /\ \E table \in Tables, doc_id \in Ids :
        /\ req' = [req EXCEPT ![t] =
                     [op |-> "get", table |-> table, id |-> doc_id,
                      doc |-> get_(table, doc_id)]]
        /\ Finish(t, "ok")

----------------------------------------------------------------------------
\* Clients and vehicles.

\* any(v for v in all_('vehicles') if v.get('plate') == plate)
PlateTaken(plate) == \E i \in DOMAIN all_("vehicles") : all_("vehicles")[i].plate = plate

ClashAny(plate, vehicle_id) ==
    SelectSeq(all_("vehicles"), LAMBDA x : x.plate = plate)

\* [x for x in all_('vehicles') if x.get('plate') == plate and x['id'] != vehicle_id]
Clash(plate, vehicle_id) ==
    SelectSeq(all_("vehicles"), LAMBDA x : x.plate = plate /\ x.id # vehicle_id)

\* POST /clients/new: validation, the plate check, then the client insert.
ClientsNew(t, cap, Names, Plates) ==
    /\ pc[t] = "idle"
    /\ UNCHANGED casc
    /\ WithinBound(cap)
    /\ \E name \in Names, raw \in Plates :
        LET full_name == Strip(name)
            plate == Upper(Strip(raw))
        IN /\ req' = [req EXCEPT ![t] =
                        [op |-> "clients_new", full_name |-> full_name,
                         raw |-> raw, plate |-> plate]]
           /\ IF full_name = <<>> \/ plate = <<>>
              THEN Finish(t, "invalid")
              ELSE IF PlateTaken(plate)
              THEN Finish(t, "duplicate")
              ELSE Invoke(t, InsertCall("clients", [full_name |-> full_name],
                                        "cn_vehicle"))

\* clients_new: the vehicle insert, with the id the client insert returned.
ClientsNewVehicle(t) ==
    /\ pc[t] = "cn_vehicle"
    /\ UNCHANGED casc
    /\ Invoke(t, InsertCall("vehicles",
                            [client_id |-> rv[t], plate |-> req[t].plate],
                            "done"))
    /\ UNCHANGED req

\* POST /vehicles/new: the plate check, then the insert.
VehiclesNew(t, cap, ClientIds, Plates) ==
    /\ pc[t] = "idle"
    /\ UNCHANGED casc
    /\ WithinBound(cap)
    /\ \E client_id \in ClientIds, raw \in Plates :
        LET plate == Strip(Upper(raw))
        IN /\ req' = [req EXCEPT ![t] =
                        [op |-> "vehicles_new", client_id |-> client_id,
                         raw |-> raw, plate |-> plate]]
           /\ IF PlateTaken(plate)
              THEN Finish(t, "duplicate")
              ELSE Invoke(t, InsertCall("vehicles",
                                        [client_id |-> client_id,
                                         plate |-> plate], "done"))

\* POST /vehicles/<id>/edit: the lookup of the vehicle.
VehiclesEdit(t, VehicleIds, ClientIds, Plates) ==
    /\ pc[t] = "idle"
    /\ UNCHANGED casc
    /\ \E vehicle_id \in VehicleIds, client_id \in ClientIds, raw \in Plates :
        /\ req' = [req EXCEPT ![t] =
                     [op |-> "vehicles_edit", vehicle_id |-> vehicle_id,
                      client_id |-> client_id, raw |-> raw,
                      plate |-> Strip(Upper(raw))]]
        /\ IF get_("vehicles", vehicle_id) = <<>>
           THEN Finish(t, "notfound")
           ELSE /\ pc' = [pc EXCEPT ![t] = "ve_check"]
                /\ UNCHANGED <<db, lock, call, nid, rv, res, issued>>

\* vehicles_edit: the clash check, then the update.
VehiclesEditCheck(t) ==
    /\ pc[t] = "ve_check"
    /\ UNCHANGED <<req, vs, vi, js, ji>>
    /\ IF Clash(req[t].plate, req[t].vehicle_id) # <<>>
       THEN Finish(t, "duplicate")
       ELSE Invoke(t, UpdateCall("vehicles", req[t].vehicle_id,
                                 [client_id |-> req[t].client_id,
                                  plate |-> req[t].plate], "done"))

\* clients_delete: [v for v in all_('vehicles') if v.get('client_id') == client_id]
VehiclesOfClient(client_id) ==
    SelectSeq(all_("vehicles"), LAMBDA v : v.client_id = client_id)

JobsOfNone(vehicle_id) == <<>>

\* clients_delete: [j for j in all_('jobs') if j.get('vehicle_id') == v['id']]
JobsOfVehicle(vehicle_id) ==
    SelectSeq(all_("jobs"), LAMBDA j : j.vehicle_id = vehicle_id)

\* POST /clients/<id>/delete: the removal of the client.
ClientsDelete(t, ClientIds) ==
    /\ pc[t] = "idle"
    /\ UNCHANGED casc
    /\ \E client_id \in ClientIds :
        /\ req' = [req EXCEPT ![t] =
                     [op |-> "clients_delete", client_id |-> client_id]]
        /\ Invoke(t, RemoveCall("clients", client_id, "cd_list"))

\* clients_delete: the list of the client's vehicles.
ClientsDeleteList(t) ==
    /\ pc[t] = "cd_list"
    /\ vs' = [vs EXCEPT ![t] = VehiclesOfClient(req[t].client_id)]
    /\ vi' = [vi EXCEPT ![t] = 1]
    /\ pc' = [pc EXCEPT ![t] = "cd_vehicle"]
    /\ UNCHANGED <<db, lock, req, call, nid, rv, res, js, ji, issued>>

\* clients_delete: the next vehicle of the list and the list of its jobs, or
\* the end of the list.
ClientsDeleteVehicle(t) ==
    /\ pc[t] = "cd_vehicle"
    /\ UNCHANGED <<req, vs, vi>>
    /\ IF vi[t] > Len(vs[t])
       THEN Finish(t, "ok") /\ UNCHANGED <<js, ji>>
       ELSE /\ js' = [js EXCEPT ![t] = JobsOfVehicle(vs[t][vi[t]].id)]
            /\ ji' = [ji EXCEPT ![t] = 1]
            /\ pc' = [pc EXCEPT ![t] = "cd_job"]
            /\ UNCHANGED <<db, lock, call, nid, rv, res, issued>>

\* clients_delete: the removal of the next job of the vehicle, or of the
\* vehicle once its jobs are through.
ClientsDeleteJob(t) ==
    /\ pc[t] = "cd_job"
    /\ UNCHANGED <<req, vs, js>>
    /\ IF ji[t] > Len(js[t])
       THEN /\ Invoke(t, RemoveCall("vehicles", vs[t][vi[t]].id, "cd_vehicle"))
            /\ vi' = [vi EXCEPT ![t] = vi[t] + 1]
            /\ UNCHANGED ji
       ELSE /\ Invoke(t, RemoveCall("jobs", js[t][ji[t]].id, "cd_job"))
            /\ ji' = [ji EXCEPT ![t] = ji[t] + 1]
            /\ UNCHANGED vi

JobsListedWrong(vehicle_id) ==
    SelectSeq(all_("jobs"), LAMBDA j : j.id = vehicle_id)

\* vehicles_delete: [j for j in all_('jobs') if j.get('vehicle_id') == vehicle_id]
JobsListed(vehicle_id) ==
    SelectSeq(all_("jobs"), LAMBDA j : j.vehicle_id = vehicle_id)

\* POST /vehicles/<id>/delete: the removal of the vehicle.  The request
\* records whether the vehicle was stored when it arrived.
VehiclesDelete(t, VehicleIds) ==
    /\ pc[t] = "idle"
    /\ UNCHANGED casc
    /\ \E vehicle_id \in VehicleIds :
        /\ req' = [req EXCEPT ![t] =
                     [op |-> "vehicles_delete", vehicle_id |-> vehicle_id,
                      found |-> get_("vehicles", vehicle_id) # <<>>]]
        /\ Invoke(t, RemoveCall("vehicles", vehicle_id, "vd_list"))

\* vehicles_delete: the list of the vehicle's jobs.
VehiclesDeleteList(t) ==
    /\ pc[t] = "vd_list"
    /\ js' = [js EXCEPT ![t] = JobsListed(req[t].vehicle_id)]
    /\ ji' = [ji EXCEPT ![t] = 1]
    /\ pc' = [pc EXCEPT ![t] = "vd_job"]
    /\ UNCHANGED <<db, lock, req, call, nid, rv, res, vs, vi, issued>>

\* vehicles_delete: the removal of the next job of the list, or the end.
VehiclesDeleteJob(t) ==
    /\ pc[t] = "vd_job"
    /\ UNCHANGED <<req, vs, vi, js>>
    /\ IF ji[t] > Len(js[t])
       THEN Finish(t, "ok") /\ UNCHANGED ji
       ELSE /\ Invoke(t, RemoveCall("jobs", js[t][ji[t]].id, "vd_job"))
            /\ ji' = [ji EXCEPT ![t] = ji[t] + 1]

----------------------------------------------------------------------------
\* Jobs and notes.

STATUS_BADGES == {"abierto", "en_proceso", "listo", "entregado", "pausado"}

\* The id of the logged-in user: the admin.
current_user == SeqStart

\* The checklist of a job: field -> 0 or 1.
ChecklistKeys ==
    {"antenas", "botiquin", "documentos", "encendedor", "extintor", "gato",
     "herramientas", "llave1", "llave2", "llave_rueda", "pisos",
     "rueda_repuesto", "tag", "tapas", "triangulos"}

\* POST /jobs/new
JobsNew(t, cap, VehicleIds, StatusValues, Descriptions, Stamps) ==
    /\ pc[t] = "idle"
    /\ WithinBound(cap)
    /\ UNCHANGED casc
    /\ \E vehicle_id \in VehicleIds, status \in StatusValues,
          description \in Descriptions, now \in Stamps :
        /\ req' = [req EXCEPT ![t] =
                     [op |-> "jobs_new", vehicle_id |-> vehicle_id,
                      status |-> status]]
        /\ Invoke(t, InsertCall("jobs",
                                [vehicle_id |-> vehicle_id,
                                 mechanic_id |-> current_user,
                                 reason |-> <<"form">>,
                                 description |-> Strip(description),
                                 status |-> status,
                                 intake_date |-> now,
                                 delivery_date |-> None,
                                 checklist |-> [k \in ChecklistKeys |-> 0]],
                                "done"))

PatchStatusOnly(st, now) == [status |-> st]

\* The patch job_change_status builds.
StatusPatch(st, now) ==
    IF st = "entregado"
    THEN [status |-> st, delivery_date |-> now]
    ELSE [status |-> st]

\* POST /jobs/<id>/status
JobChangeStatus(t, JobIds, StatusValues) ==
    /\ pc[t] = "idle"
    /\ UNCHANGED casc
    /\ \E job_id \in JobIds, st \in StatusValues, now \in Times :
        /\ req' = [req EXCEPT ![t] =
                     [op |-> "job_change_status", job_id |-> job_id,
                      status |-> st]]
        /\ Invoke(t, UpdateCall("jobs", job_id, StatusPatch(st, now), "done"))

\* POST /jobs/<id>/notes
JobAddNote(t, cap, JobIds, Contents, Stamps) ==
    /\ pc[t] = "idle"
    /\ WithinBound(cap)
    /\ UNCHANGED casc
    /\ \E job_id \in JobIds, raw \in Contents, now \in Stamps :
        LET content == Strip(raw)
        IN /\ req' = [req EXCEPT ![t] =
                        [op |-> "job_add_note", job_id |-> job_id,
                         content |-> content]]
           /\ IF content # <<>>
              THEN Invoke(t, InsertCall("notes",
                                        [job_id |-> job_id,
                                         user_id |-> current_user,
                                         content |-> content,
                                         created_at |-> now], "done"))
              ELSE Finish(t, "empty")

\* docs.sort(key=lambda x: x.get('created_at','')): the sort keeps documents
\* of equal created_at in the order they had.
RECURSIVE SortByCreatedAt(_)
SortByCreatedAt(docs) ==
    IF docs = <<>> THEN <<>>
    ELSE LET x == docs[Len(docs)]
             sorted == SortByCreatedAt(SubSeq(docs, 1, Len(docs) - 1))
             k == Cardinality({i \in DOMAIN sorted :
                                 sorted[i].created_at <= x.created_at})
         IN SubSeq(sorted, 1, k) \o <<x>> \o SubSeq(sorted, k + 1, Len(sorted))

SortByCreatedAtReversed(docs) ==
    LET sorted == SortByCreatedAt(docs)
    IN [i \in DOMAIN sorted |-> sorted[Len(sorted) + 1 - i]]

\* docs.sort(key=lambda x: x.get('created_at',''), reverse=True): greatest
\* created_at first, documents of equal created_at in the order they had.
RECURSIVE SortByCreatedAtDesc(_)
SortByCreatedAtDesc(docs) ==
    IF docs = <<>> THEN <<>>
    ELSE LET x == docs[Len(docs)]
             sorted == SortByCreatedAtDesc(SubSeq(docs, 1, Len(docs) - 1))
             k == Cardinality({i \in DOMAIN sorted :
                                 sorted[i].created_at >= x.created_at})
         IN SubSeq(sorted, 1, k) \o <<x>> \o SubSeq(sorted, k + 1, Len(sorted))

\* _latest_quote_for_job: the quote as a list that is empty for None.
latest_quote_for_job(job_id) ==
    LET qs == SortByCreatedAtDesc(
                  SelectSeq(all_("quotes"), LAMBDA q : q.job_id = job_id))
    IN IF qs # <<>> THEN <<qs[1]>> ELSE <<>>

TasksOfNotesAlways(tasks, job_id) ==
    LET notes == SortByCreatedAt(
                     SelectSeq(all_("notes"), LAMBDA n : n.job_id = job_id))
    IN tasks \o [i \in DOMAIN notes |-> notes[i].content]

\* job_print: the tasks read from the notes of the job when the description
\* gave none.
TasksOfNotes(tasks, job_id) ==
    IF tasks = <<>>
    THEN LET notes == SortByCreatedAt(
                          SelectSeq(all_("notes"),
                                    LAMBDA n : n.job_id = job_id))
             withContent == SelectSeq(notes, LAMBDA n : n.content # <<>>)
         IN [i \in DOMAIN withContent |-> withContent[i].content]
    ELSE tasks

\* GET /jobs/<id>/print: the request records the tasks and the amounts of
\* the page, and the quote they are read from.  The handler reads the store
\* without the lock and calls none of insert, update and remove.
JobPrint(t, JobIds) ==
    /\ pc[t] = "idle"
    /\ UNCHANGED casc
    /\ \E job_id \in JobIds :
        LET j == get_("jobs", job_id)
        IN IF j = <<>>
           THEN /\ req' = [req EXCEPT ![t] =
                             [op |-> "job_print", job_id |-> job_id]]
                /\ Finish(t, "notfound")
           ELSE LET described == IF j[1].description # <<>>
                                 THEN StrippedLines(j[1].description)
                                 ELSE <<>>
                    q == latest_quote_for_job(job_id)
                IN /\ req' = [req EXCEPT ![t] =
                                [op |-> "job_print", job_id |-> job_id,
                                 tasks |-> TasksOfNotes(described, job_id),
                                 quote |-> q,
                                 subtotal |-> IF q # <<>> THEN q[1].subtotal
                                              ELSE 0,
                                 igv |-> IF q # <<>> THEN q[1].igv ELSE 0,
                                 total |-> IF q # <<>> THEN q[1].total
                                           ELSE 0]]
                   /\ Finish(t, "ok")

----------------------------------------------------------------------------
\* Quotes.

\* Money and quantities are kept in hundredths, the precision of round(x, 2).
Scale == 100

\* The IGV rate, in hundredths.
igv_rate == 18

\* A form value that float() rejects.
BadNumber == None

\* n / d rounded to the nearest integer, a tie going to the even one.
RoundDiv(n, d) ==
    LET q == n \div d
        r == n % d
    IN IF 2 * r < d THEN q
       ELSE IF 2 * r > d THEN q + 1
       ELSE IF q % 2 = 0 THEN q ELSE q + 1

\* round(qf * pf, 2)
LineTotal(qf, pf) == RoundDiv(qf * pf, Scale)

\* _parse_items_from_form: the rows whose description is not blank, each
\* with its line total; a row with a number that does not parse counts as
\* quantity 0 at price 0.
RECURSIVE ParseItems(_)
ParseItems(rows) ==
    IF rows = <<>> THEN <<>>
    ELSE LET d == Strip(Head(rows).desc)
             bad == Head(rows).qty = BadNumber \/ Head(rows).price = BadNumber
             qf == IF bad THEN 0 ELSE Head(rows).qty
             pf == IF bad THEN 0 ELSE Head(rows).price
         IN IF d = <<>>
            THEN ParseItems(Tail(rows))
            ELSE <<[desc |-> d, qty |-> qf, unit_price |-> pf,
                    total |-> LineTotal(qf, pf)]>>
                 \o ParseItems(Tail(rows))

\* sum(i['total'] for i in items)
RECURSIVE SumTotals(_)
SumTotals(items) ==
    IF items = <<>> THEN 0 ELSE Head(items).total + SumTotals(Tail(items))

\* round(subtotal * (igv_rate if require_invoice else 0.0), 2)
Igv(subtotal, require_invoice) ==
    RoundDiv(subtotal * (IF require_invoice THEN igv_rate ELSE 0), Scale)

\* _totals: sums of hundredths are whole hundredths, which round(x, 2) keeps.
Totals(items, require_invoice) ==
    LET subtotal == SumTotals(items)
        igv == Igv(subtotal, require_invoice)
    IN [subtotal |-> subtotal, igv |-> igv, total |-> subtotal + igv]

\* quotes_list: the sum over the items of qty * unit_price, in hundredths of
\* hundredths.
RECURSIVE SumProducts(_)
SumProducts(items) ==
    IF items = <<>> THEN 0
    ELSE Head(items).qty * Head(items).unit_price + SumProducts(Tail(items))

\* POST /quotes/new
QuotesCreate(t, cap, Rows, Amounts, OptIds, Invoice, JobIds, Services, Stamps) ==
    /\ pc[t] = "idle"
    /\ WithinBound(cap)
    /\ UNCHANGED casc
    /\ \E rows \in Rows, amount \in Amounts, client_id \in OptIds,
          vehicle_id \in OptIds, need_invoice \in Invoice, job_id \in JobIds,
          services \in Services, now \in Stamps :
        LET parsed == ParseItems(rows)
            items == IF parsed = <<>> /\ amount # 0
                     THEN <<[desc |-> <<"Servicios">>, qty |-> Scale,
                             unit_price |-> amount,
                             total |-> RoundDiv(amount * Scale, Scale)]>>
                     ELSE parsed
            sums == Totals(items, need_invoice # 0)
        IN /\ req' = [req EXCEPT ![t] = [op |-> "quotes_create"]]
           /\ Invoke(t, InsertCall("quotes",
                    [job_id |-> job_id,
                     client_id |-> IF parsed = <<>> THEN None ELSE client_id,
                     vehicle_id |-> IF parsed = <<>> THEN None ELSE vehicle_id,
                     services_lines |-> StrippedLines(Strip(services)),
                     require_invoice |-> need_invoice,
                     items |-> items,
                     subtotal |-> sums.subtotal,
                     igv |-> sums.igv,
                     total |-> sums.total,
                     created_at |-> now,
                     created_by |-> current_user], "done"))

DuplicateBaseNoItems(q) ==
    [job_id |-> q.job_id, client_id |-> q.client_id,
     vehicle_id |-> q.vehicle_id, services_lines |-> q.services_lines,
     require_invoice |-> q.require_invoice, items |-> <<>>]

\* quote_duplicate: the fields copied from the source quote.
DuplicateBase(q) ==
    [job_id |-> q.job_id, client_id |-> q.client_id,
     vehicle_id |-> q.vehicle_id, services_lines |-> q.services_lines,
     require_invoice |-> q.require_invoice, items |-> q.items]

\* GET /quotes/<id>/duplicate: the lookup, the copy with its totals computed
\* anew, the insert.
QuoteDuplicate(t, cap, QuoteIds, Stamps) ==
    /\ pc[t] = "idle"
    /\ WithinBound(cap)
    /\ UNCHANGED casc
    /\ \E quote_id \in QuoteIds, now \in Stamps :
        LET q == get_("quotes", quote_id)
        IN /\ req' = [req EXCEPT ![t] =
                        [op |-> "quote_duplicate", quote_id |-> quote_id]]
           /\ IF q = <<>>
              THEN Finish(t, "notfound")
              ELSE LET base == DuplicateBase(q[1])
                       sums == Totals(base.items, base.require_invoice # 0)
                   IN Invoke(t, InsertCall("quotes",
                        Merge(base, [subtotal |-> sums.subtotal,
                                     igv |-> sums.igv,
                                     total |-> sums.total,
                                     created_at |-> now,
                                     created_by |-> current_user]),
                        "done"))

\* f"{x:.2f}" of an amount kept in hundredths.
Fmt2(n) ==
    LET a == IF n < 0 THEN -n ELSE n
    IN (IF n < 0 THEN <<"-">> ELSE <<>>)
           \o Decimal(a \div Scale) \o <<".">>
           \o SubSeq(Decimal(Scale + (a % Scale)), 2, 3)

\* _quote_as_text: the line of an item.
ItemLine(it) ==
    <<"-", " ">> \o it.desc
        \o <<" ", "·", " ", "cant:", " ">> \o Fmt2(it.qty)
        \o <<" ", "·", " ", "p.u.:", " ", "S/", " ">> \o Fmt2(it.unit_price)
        \o <<" ", "·", " ", "total:", " ", "S/", " ">> \o Fmt2(it.total)

ServicesHeader == <<"Servicios", " ", "solicitados:">>
ItemsHeader == <<"Ítems", " ", "cotizados:">>
NoInvoiceLine == <<"IGV:", " ", "0%", " ", "(no", " ", "factura)">>

QuoteBlocksBoth(q) ==
    <<ServicesHeader>>
        \o [i \in DOMAIN q.services_lines |->
               <<"-", " ">> \o q.services_lines[i]]
        \o <<<<>>, ItemsHeader>>
        \o [i \in DOMAIN q.items |-> ItemLine(q.items[i])]
        \o <<<<>>>>

\* _quote_as_text: the lines of the block of services or, without services,
\* of items.
QuoteBlocks(q) ==
    IF q.services_lines # <<>>
    THEN <<ServicesHeader>>
             \o [i \in DOMAIN q.services_lines |->
                    <<"-", " ">> \o q.services_lines[i]]
             \o <<<<>>>>
    ELSE IF q.items # <<>>
    THEN <<ItemsHeader>>
             \o [i \in DOMAIN q.items |-> ItemLine(q.items[i])]
             \o <<<<>>>>
    ELSE <<>>

\* _quote_as_text: the line of the tax.
TaxLine(q) ==
    IF q.require_invoice # 0
    THEN <<"IGV", " ", "18%:", " ", "S/", " ">> \o Fmt2(q.igv)
    ELSE NoInvoiceLine

\* _quote_as_text: the lines, before they are joined.
QuoteLines(q) ==
    QuoteBlocks(q)
        \o << <<"Subtotal:", " ", "S/", " ">> \o Fmt2(q.subtotal),
              TaxLine(q),
              <<"TOTAL:", " ", "S/", " ">> \o Fmt2(q.total) >>

quote_as_text(q) == Join(QuoteLines(q))

\* A call of _quote_as_text on a stored quote: the request records the text.
QuoteAsTextCall(t, QuoteIds) ==
    /\ pc[t] = "idle"
    /\ UNCHANGED casc
    /\ \E quote_id \in QuoteIds :
        LET q == get_("quotes", quote_id)
        IN IF q = <<>>
           THEN /\ req' = [req EXCEPT ![t] =
                             [op |-> "quote_as_text", quote_id |-> quote_id]]
                /\ Finish(t, "notfound")
           ELSE /\ req' = [req EXCEPT ![t] =
                             [op |-> "quote_as_text", quote_id |-> quote_id,
                              text |-> quote_as_text(q[1])]]
                /\ Finish(t, "ok")

VehicleMissing(q) == Falsy(q.vehicle_id)

\* quote_to_job: `not veh_id or not cli_id`
AssociationMissing(q) == Falsy(q.vehicle_id) \/ Falsy(q.client_id)

\* GET /quotes/<id>/to-job: the lookup, the association check, the job insert.
QuoteToJob(t, cap, QuoteIds, Stamps) ==
    /\ pc[t] = "idle"
    /\ WithinBound(cap)
    /\ UNCHANGED casc
    /\ \E quote_id \in QuoteIds, now \in Stamps :
        LET q == get_("quotes", quote_id)
        IN /\ req' = [req EXCEPT ![t] =
                        [op |-> "quote_to_job", quote_id |-> quote_id]]
           /\ IF q = <<>>
              THEN Finish(t, "notfound")
              ELSE IF AssociationMissing(q[1])
              THEN Finish(t, "missing")
              ELSE Invoke(t, InsertCall("jobs",
                                [vehicle_id |-> q[1].vehicle_id,
                                 mechanic_id |-> current_user,
                                 reason |-> <<"Cotizacion", quote_id>>,
                                 description |->
                                     <<"Creado", " ", "desde", " ",
                                       "Cotización", " ", "#">>
                                         \o Decimal(quote_id)
                                         \o <<"\n", "\n">>
                                         \o quote_as_text(q[1]),
                                 status |-> "abierto",
                                 intake_date |-> now,
                                 delivery_date |-> None,
                                 checklist |-> [k \in ChecklistKeys |-> 0]],
                                "q2j_note"))

QuoteToJobNoNote(t, Stamps) ==
    /\ pc[t] = "q2j_note"
    /\ UNCHANGED <<req, vs, vi, js, ji>>
    /\ Finish(t, "ok")

\* quote_to_job: the note insert, with the id the job insert returned.
QuoteToJobNote(t, Stamps) ==
    /\ pc[t] = "q2j_note"
    /\ UNCHANGED <<req, vs, vi, js, ji>>
    /\ \E now \in Stamps :
        Invoke(t, InsertCall("notes",
                             [job_id |-> rv[t], user_id |-> current_user,
                              content |-> <<"OT", req[t].quote_id>>,
                              created_at |-> now], "done"))

----------------------------------------------------------------------------
\* Views: the handlers that answer with a page or a JSON object.  They read
\* the store without the lock and call none of insert, update and remove.
\* The request records what the page is made from; the pages are requested
\* without a search text.

\* The store after a view has assigned fields on documents that all_ or get_
\* gave it: db() opens the file with JSONStorage and no cache, every read
\* parses the file anew, and the documents read are the view's own.
AssignedInStore(table, docs) ==
    [db EXCEPT ![table] =
        [i \in DOMAIN @ |->
            IF \E k \in DOMAIN docs : docs[k].id = @[i].id
            THEN docs[CHOOSE k \in DOMAIN docs : docs[k].id = @[i].id]
            ELSE @[i]]]

Assigned(table, docs) == db

\* A view answers, leaving `store` behind.
Respond(t, store) ==
    /\ db' = store
    /\ pc' = [pc EXCEPT ![t] = "done"]
    /\ res' = [res EXCEPT ![t] = "ok"]
    /\ UNCHANGED <<lock, call, nid, rv, issued>>

\* jobs.sort(key=lambda j: j.get('intake_date',''), reverse=True)
RECURSIVE SortByIntakeDateDesc(_)
SortByIntakeDateDesc(docs) ==
    IF docs = <<>> THEN <<>>
    ELSE LET x == docs[Len(docs)]
             sorted == SortByIntakeDateDesc(SubSeq(docs, 1, Len(docs) - 1))
             k == Cardinality({i \in DOMAIN sorted :
                                 sorted[i].intake_date >= x.intake_date})
         IN SubSeq(sorted, 1, k) \o <<x>> \o SubSeq(sorted, k + 1, Len(sorted))

\* (get_('clients', client_id) or {}).get('full_name','')
ClientName(client_id) ==
    LET c == get_("clients", client_id)
    IN IF c = <<>> THEN <<>> ELSE c[1].full_name

\* (get_('vehicles', vehicle_id) or {}).get('client_id')
ClientIdOfVehicle(vehicle_id) ==
    LET v == get_("vehicles", vehicle_id)
    IN IF v = <<>> THEN None ELSE v[1].client_id

\* j.copy() with its vehicle and its client, each a list that is empty for {}.
WithVehicleAndClient(j) ==
    Merge(j, [vehicle |-> get_("vehicles", j.vehicle_id),
              client |-> get_("clients", ClientIdOfVehicle(j.vehicle_id))])

\* The rows that the dashboard shows of a list.
DashboardRows == 5

\* GET /
Dashboard(t) ==
    /\ pc[t] = "idle"
    /\ UNCHANGED casc
    /\ LET sorted == SortByIntakeDateDesc(all_("jobs"))
           jobs == SubSeq(sorted, 1,
                          IF Len(sorted) < DashboardRows
                          THEN Len(sorted) ELSE DashboardRows)
           stored == all_("vehicles")
           vehicles == SubSeq(stored,
                              IF Len(stored) < DashboardRows
                              THEN 1 ELSE Len(stored) - DashboardRows + 1,
                              Len(stored))
       IN /\ req' = [req EXCEPT ![t] =
                      [op |-> "dashboard",
                       jobs |-> [i \in DOMAIN jobs |->
                                    WithVehicleAndClient(jobs[i])],
                       vehicles |-> [i \in DOMAIN vehicles |->
                                        Merge(vehicles[i],
                                              [client_name |->
                                                  ClientName(
                                                      vehicles[i].client_id)])]]]
          /\ Finish(t, "ok")

\* GET /clients: vehicles_count is assigned on the clients read.  The page
\* sorts its rows by name; the request keeps them as a set.
ClientsList(t) ==
    /\ pc[t] = "idle"
    /\ UNCHANGED casc
    /\ LET read == all_("clients")
           clients == [i \in DOMAIN read |->
                          Merge(read[i],
                                [vehicles_count |->
                                    Len(SelectSeq(all_("vehicles"),
                                        LAMBDA v : v.client_id = read[i].id))])]
       IN /\ req' = [req EXCEPT ![t] =
                      [op |-> "clients_list", rows |-> Range(clients)]]
          /\ Respond(t, Assigned("clients", clients))

\* GET /vehicles: client_name is assigned on the vehicles read.  The page
\* sorts its rows by plate and name; the request keeps them as a set.
VehiclesList(t) ==
    /\ pc[t] = "idle"
    /\ UNCHANGED casc
    /\ LET read == all_("vehicles")
           vehicles == [i \in DOMAIN read |->
                           Merge(read[i],
                                 [client_name |->
                                     ClientName(read[i].client_id)])]
       IN /\ req' = [req EXCEPT ![t] =
                      [op |-> "vehicles_list", rows |-> Range(vehicles)]]
          /\ Respond(t, Assigned("vehicles", vehicles))

\* GET /api/vehicle/<id>/info
ApiVehicleInfo(t, VehicleIds) ==
    /\ pc[t] = "idle"
    /\ UNCHANGED casc
    /\ \E vehicle_id \in VehicleIds :
        LET v == get_("vehicles", vehicle_id)
            jobs == SortByIntakeDateDesc(
                        SelectSeq(all_("jobs"),
                                  LAMBDA j : j.vehicle_id = vehicle_id))
        IN IF v = <<>>
           THEN /\ req' = [req EXCEPT ![t] =
                             [op |-> "api_vehicle_info",
                              vehicle_id |-> vehicle_id]]
                /\ Finish(t, "notfound")
           ELSE /\ req' = [req EXCEPT ![t] =
                             [op |-> "api_vehicle_info",
                              vehicle_id |-> vehicle_id,
                              client_name |-> ClientName(v[1].client_id),
                              last_job_date |-> IF jobs # <<>>
                                                THEN jobs[1].intake_date
                                                ELSE None]]
                /\ Finish(t, "ok")

\* GET /jobs
JobsList(t) ==
    /\ pc[t] = "idle"
    /\ UNCHANGED casc
    /\ LET jobs == all_("jobs")
           out == [i \in DOMAIN jobs |-> WithVehicleAndClient(jobs[i])]
       IN /\ req' = [req EXCEPT ![t] =
                      [op |-> "jobs_list",
                       rows |-> SortByIntakeDateDesc(out)]]
          /\ Finish(t, "ok")

\* GET /jobs/<id>
JobDetail(t, JobIds) ==
    /\ pc[t] = "idle"
    /\ UNCHANGED casc
    /\ \E job_id \in JobIds :
        LET j == get_("jobs", job_id)
        IN IF j = <<>>
           THEN /\ req' = [req EXCEPT ![t] =
                             [op |-> "job_detail", job_id |-> job_id]]
                /\ Finish(t, "notfound")
           ELSE /\ req' = [req EXCEPT ![t] =
                             [op |-> "job_detail", job_id |-> job_id,
                              job |-> Merge(WithVehicleAndClient(j[1]),
                                        [notes |-> SortByCreatedAtDesc(
                                            SelectSeq(all_("notes"),
                                              LAMBDA n :
                                                n.job_id = job_id))])]]
                /\ Finish(t, "ok")

\* quotes_list: subtotal, igv and total of a quote, each the stored one or,
\* for a quote stored without it, computed from the items.
WithTotals(q) ==
    LET subtotal == IF "subtotal" \in DOMAIN q THEN q.subtotal
                    ELSE RoundDiv(SumProducts(q.items), Scale)
        igv == IF "igv" \in DOMAIN q THEN q.igv
               ELSE RoundDiv(subtotal * (IF q.require_invoice # 0
                                         THEN igv_rate ELSE 0), Scale)
        total == IF "total" \in DOMAIN q THEN q.total ELSE subtotal + igv
    IN Merge(q, [subtotal |-> subtotal, igv |-> igv, total |-> total])

\* GET /quotes: the totals are assigned on the quotes read.
QuotesList(t) ==
    /\ pc[t] = "idle"
    /\ UNCHANGED casc
    /\ LET read == all_("quotes")
           quotes == [i \in DOMAIN read |-> WithTotals(read[i])]
       IN /\ req' = [req EXCEPT ![t] =
                      [op |-> "quotes_list",
                       rows |-> SortByCreatedAtDesc(quotes)]]
          /\ Respond(t, Assigned("quotes", quotes))

\* GET /quotes/<id>/print: the totals, computed from the items, are assigned
\* on the quote read.
QuotePrint(t, QuoteIds) ==
    /\ pc[t] = "idle"
    /\ UNCHANGED casc
    /\ \E quote_id \in QuoteIds :
        LET read == get_("quotes", quote_id)
        IN IF read = <<>>
           THEN /\ req' = [req EXCEPT ![t] =
                             [op |-> "quote_print", quote_id |-> quote_id]]
                /\ Finish(t, "notfound")
           ELSE LET q == Merge(read[1],
                               Totals(read[1].items,
                                      read[1].require_invoice # 0))
                IN /\ req' = [req EXCEPT ![t] =
                                [op |-> "quote_print",
                                 quote_id |-> quote_id,
                                 quote |-> q,
                                 vehicle |-> get_("vehicles",
                                     IF Falsy(q.vehicle_id) THEN 0
                                     ELSE q.vehicle_id),
                                 client |-> get_("clients",
                                     IF Falsy(q.client_id) THEN 0
                                     ELSE q.client_id)]]
                   /\ Respond(t, Assigned("quotes", <<q>>))

----------------------------------------------------------------------------
\* The values the requests are drawn from.

NameInputs == {<<"n">>, <<" ">>}

\* Three spellings of one plate, another plate and a blank one.
PlateInputs == {<<"a">>, <<" ", "A">>, <<"b">>, <<" ">>}

\* The ids a request may name: those the counter can have issued.
IdInputs == 2..(MaxId + 1)

\* A client id that vehicle forms send.
ClientIdInputs == {2}

\* The clock reading of the requests whose timestamps nothing compares.
ClockInputs == {MaxTime}

\* Clock readings that make earlier, later and equal timestamps.
StampInputs == 1..(MaxTime + 1)

----------------------------------------------------------------------------
\* Specifications.

StoreInsert(t) == NextIdRead(t) \/ NextIdWrite(t) \/ Insert(t)

\* Creation and edition of vehicles, by the threads of T.
PlatesNext(T, cap) ==
    \E t \in T :
        \/ ClientsNew(t, cap, NameInputs, PlateInputs)
        \/ ClientsNewVehicle(t)
        \/ VehiclesNew(t, cap, ClientIdInputs, PlateInputs)
        \/ VehiclesEdit(t, IdInputs, ClientIdInputs, PlateInputs)
        \/ VehiclesEditCheck(t)
        \/ Acquire(t)
        \/ StoreInsert(t)
        \/ Update(t)
        \/ Return(t)

SpecPlates == Init /\ [][PlatesNext(Threads, MaxId)]_vars

SeqPlates == Init /\ [][PlatesNext({1}, MaxIdSeq)]_vars

\* Inserts into every collection, updates and removals, by concurrent threads.
IdsNext ==
    \E t \in Threads :
        \/ ClientsNew(t, MaxId, {<<"n">>}, {<<"a">>})
        \/ ClientsNewVehicle(t)
        \/ JobsNew(t, MaxId, {3}, {"abierto"}, {<<>>}, ClockInputs)
        \/ JobAddNote(t, MaxId, {3}, {<<"x">>}, ClockInputs)
        \/ QuotesCreate(t, MaxId, {<<>>}, {0}, {None}, {0},
                        {None}, {<<>>}, ClockInputs)
        \/ JobChangeStatus(t, 2..MaxId + 1, {"listo"})
        \/ VehiclesDelete(t, 2..MaxId + 1)
        \/ VehiclesDeleteList(t)
        \/ VehiclesDeleteJob(t)
        \/ Acquire(t)
        \/ StoreInsert(t)
        \/ Update(t)
        \/ Remove(t)
        \/ Return(t)

SpecIds == Init /\ [][IdsNext]_vars

\* A form row of a quote: description, quantity, unit price.
RowInputs == {<<[desc |-> <<"x">>, qty |-> Scale, price |-> 50 * Scale]>>}

\* Clients with vehicles, jobs, notes and quotes, and the deletion of
\* clients, with requests served one at a time.
SeqCascadeNext ==
    \E t \in {1} :
        \/ ClientsNew(t, MaxIdSeq, {<<"n">>}, {<<"a">>, <<"b">>})
        \/ ClientsNewVehicle(t)
        \/ VehiclesNew(t, MaxIdSeq, ClientIdInputs, {<<"b">>, <<" ">>})
        \/ JobsNew(t, MaxIdSeq, {3, 4}, {"abierto"}, {<<>>}, ClockInputs)
        \/ JobAddNote(t, MaxIdSeq, {5}, {<<"x">>}, ClockInputs)
        \/ QuotesCreate(t, MaxIdSeq, RowInputs, {0}, {3}, {0},
                        {None}, {<<>>}, ClockInputs)
        \/ ClientsDelete(t, {2, 4})
        \/ ClientsDeleteList(t)
        \/ ClientsDeleteVehicle(t)
        \/ ClientsDeleteJob(t)
        \/ Acquire(t)
        \/ StoreInsert(t)
        \/ Remove(t)
        \/ Return(t)

SeqCascade == Init /\ [][SeqCascadeNext]_vars

\* Vehicles, their jobs and the deletion of vehicles, by concurrent threads.
CascadeNext ==
    \E t \in Threads :
        \/ VehiclesNew(t, MaxId, ClientIdInputs, {<<"a">>, <<"b">>})
        \/ JobsNew(t, MaxId, {2, 3}, {"abierto"}, {<<>>}, ClockInputs)
        \/ VehiclesDelete(t, {2, 3})
        \/ VehiclesDeleteList(t)
        \/ VehiclesDeleteJob(t)
        \/ Acquire(t)
        \/ StoreInsert(t)
        \/ Remove(t)
        \/ Return(t)

SpecCascade == Init /\ [][CascadeNext]_vars

\* Jobs from forms and from quotes, and their status changes, by concurrent
\* threads.
JobsNext ==
    \E t \in Threads :
        \/ JobsNew(t, MaxId, {3}, {"abierto", "otro"}, {<<>>}, ClockInputs)
        \/ JobChangeStatus(t, {2, 3}, {"entregado", "listo", "otro"})
        \/ QuotesCreate(t, MaxId, RowInputs, {0}, {None, 3}, {0},
                        {None}, {<<>>}, ClockInputs)
        \/ QuoteToJob(t, MaxId, {2, 3}, ClockInputs)
        \/ QuoteToJobNote(t, ClockInputs)
        \/ Acquire(t)
        \/ StoreInsert(t)
        \/ Update(t)
        \/ Return(t)

SpecJobs == Init /\ [][JobsNext]_vars

\* Form rows of quotes: one unit at 50.00; 1.2 units at 4.37, twice; a row
\* with a blank description before a row whose quantity is not a number.
QuoteRowInputs ==
    {<<>>,
     <<[desc |-> <<"x">>, qty |-> Scale, price |-> 50 * Scale]>>,
     <<[desc |-> <<"y">>, qty |-> 120, price |-> 437],
       [desc |-> <<"y">>, qty |-> 120, price |-> 437]>>,
     <<[desc |-> <<" ">>, qty |-> Scale, price |-> 437],
       [desc |-> <<"z">>, qty |-> BadNumber, price |-> 437]>>}

\* Creation and duplication of quotes, by concurrent threads.
QuotesNext ==
    \E t \in Threads :
        \/ QuotesCreate(t, MaxId, QuoteRowInputs, {0, 50 * Scale}, {3}, {0, 1},
                        {None}, {<<>>}, ClockInputs)
        \/ QuoteDuplicate(t, MaxId, IdInputs, ClockInputs)
        \/ Acquire(t)
        \/ StoreInsert(t)
        \/ Return(t)

SpecQuotes == Init /\ [][QuotesNext]_vars

\* Notes of jobs, from the form and from quotes, with the status changes and
\* the deletions of vehicles and clients, by concurrent threads.
NotesNext ==
    \E t \in Threads :
        \/ VehiclesNew(t, MaxId, ClientIdInputs, {<<"a">>})
        \/ JobsNew(t, MaxId, {2}, {"abierto"}, {<<>>}, ClockInputs)
        \/ JobAddNote(t, MaxId + 1, {3}, {<<"x">>, <<" ">>}, ClockInputs)
        \/ QuotesCreate(t, MaxId, RowInputs, {0}, {2}, {0},
                        {None}, {<<>>}, ClockInputs)
        \/ QuoteToJob(t, MaxId, {2}, ClockInputs)
        \/ QuoteToJobNote(t, ClockInputs)
        \/ JobChangeStatus(t, {3}, {"listo"})
        \/ ClientsDelete(t, ClientIdInputs)
        \/ ClientsDeleteList(t)
        \/ ClientsDeleteVehicle(t)
        \/ ClientsDeleteJob(t)
        \/ VehiclesDelete(t, {2})
        \/ VehiclesDeleteList(t)
        \/ VehiclesDeleteJob(t)
        \/ Acquire(t)
        \/ StoreInsert(t)
        \/ Update(t)
        \/ Remove(t)
        \/ Return(t)

SpecNotes == Init /\ [][NotesNext]_vars

\* Clients, the vehicles that name them and the deletion of clients, by
\* concurrent threads.
OwnersNext ==
    \E t \in Threads :
        \/ ClientsNew(t, MaxId, {<<"n">>}, {<<"a">>})
        \/ ClientsNewVehicle(t)
        \/ VehiclesNew(t, MaxId, ClientIdInputs, {<<"b">>})
        \/ VehiclesEdit(t, {3}, {2, 4}, {<<"a">>})
        \/ VehiclesEditCheck(t)
        \/ JobsNew(t, MaxId, {3}, {"abierto"}, {<<>>}, ClockInputs)
        \/ ClientsDelete(t, ClientIdInputs)
        \/ ClientsDeleteList(t)
        \/ ClientsDeleteVehicle(t)
        \/ ClientsDeleteJob(t)
        \/ Acquire(t)
        \/ StoreInsert(t)
        \/ Update(t)
        \/ Remove(t)
        \/ Return(t)

SpecOwners == Init /\ [][OwnersNext]_vars

\* The requests of a finite set of invocations: the inserting requests end
\* with the bound on the counter, and a deletion is requested for a stored
\* client or vehicle.
Request(t) ==
    \/ ClientsNew(t, MaxId, {<<"n">>}, {<<"a">>})
    \/ JobsNew(t, MaxId, {4}, {"abierto"}, {<<>>}, ClockInputs)
    \/ QuotesCreate(t, MaxId, RowInputs, {0}, {4}, {0},
                    {None}, {<<>>}, ClockInputs)
    \/ QuoteToJob(t, MaxId, {2}, ClockInputs)
    \/ ClientsDelete(t, IdsIn(all_("clients")))
    \/ VehiclesDelete(t, IdsIn(all_("vehicles")))

\* The steps of thread t once its request has started, up to its return.
Step(t) ==
    \/ ClientsNewVehicle(t)
    \/ QuoteToJobNote(t, ClockInputs)
    \/ ClientsDeleteList(t)
    \/ ClientsDeleteVehicle(t)
    \/ ClientsDeleteJob(t)
    \/ VehiclesDeleteList(t)
    \/ VehiclesDeleteJob(t)
    \/ Acquire(t)
    \/ StoreInsert(t)
    \/ Remove(t)
    \/ Return(t)

FairNext == \E t \in Threads : Request(t) \/ Step(t)

\* Every thread that can take a step of its request eventually takes one:
\* the threads of the server are scheduled fairly.  A thread that waits for
\* the lock can take its step only while the lock is free.
SpecFair == Init /\ [][FairNext]_vars /\ \A t \in Threads : WF_vars(Step(t))

\* A client with two vehicles, one of them with a job, and the deletions of
\* the client and of a vehicle, by concurrent threads.
AtomicityNext ==
    \E t \in Threads :
        \/ ClientsNew(t, MaxId - 1, {<<"n">>}, {<<"a">>})
        \/ VehiclesNew(t, MaxId + 1, ClientIdInputs, {<<"b">>})
        \/ JobsNew(t, MaxId + 2, {MaxId + 1}, {"abierto"}, {<<>>}, ClockInputs)
        \/ ClientsNewVehicle(t)
        \/ ClientsDelete(t, ClientIdInputs)
        \/ ClientsDeleteList(t)
        \/ ClientsDeleteVehicle(t)
        \/ ClientsDeleteJob(t)
        \/ VehiclesDelete(t, {MaxId + 1})
        \/ VehiclesDeleteList(t)
        \/ VehiclesDeleteJob(t)
        \/ Acquire(t)
        \/ StoreInsert(t)
        \/ Remove(t)
        \/ Return(t)

SpecAtomicity == Init /\ [][AtomicityNext]_vars

\* The field/value maps that find is called with: none, one and two pairs.
WhereInputs ==
    {[k \in {} |-> None],
     [client_id |-> 2],
     [plate |-> <<"B">>],
     [client_id |-> 2, plate |-> <<"A">>],
     [client_id |-> 2, brand |-> <<"x">>]}

\* Vehicles of clients and the reads of the store, with requests served one
\* at a time.
SeqFindNext ==
    \E t \in {1} :
        \/ ClientsNew(t, MaxIdSeq, {<<"n">>}, {<<"a">>})
        \/ ClientsNewVehicle(t)
        \/ VehiclesNew(t, MaxIdSeq, ClientIdInputs, {<<"a">>, <<"b">>})
        \/ VehiclesDelete(t, IdInputs)
        \/ VehiclesDeleteList(t)
        \/ VehiclesDeleteJob(t)
        \/ FindCall(t, {"vehicles", "clients"}, WhereInputs)
        \/ GetCall(t, {"vehicles", "clients"}, IdInputs)
        \/ Acquire(t)
        \/ StoreInsert(t)
        \/ Remove(t)
        \/ Return(t)

SeqFind == Init /\ [][SeqFindNext]_vars

\* Descriptions of a job: none, blank, and lines with blanks around them.
DescriptionInputs ==
    {<<>>, <<" ", "\n", " ">>, <<" ", "a", " ", "\n", "\n", " ", "\n", "b">>}

\* Jobs, their notes and their quotes, and the page of a job, with requests
\* served one at a time.
SeqPrintNext ==
    \E t \in {1} :
        \/ JobsNew(t, MaxId + 2, {3}, {"abierto"}, DescriptionInputs,
                   ClockInputs)
        \/ JobAddNote(t, MaxId + 2, {2}, {<<"x">>, <<"y">>}, StampInputs)
        \/ QuotesCreate(t, MaxId + 2, {<<>>} \cup RowInputs, {0}, {3}, {0},
                        {2}, {<<>>}, StampInputs)
        \/ JobPrint(t, {2, 3})
        \/ Acquire(t)
        \/ StoreInsert(t)
        \/ Return(t)

SeqPrint == Init /\ [][SeqPrintNext]_vars

\* The views, among the requests that fill the store.
ViewsNext ==
    \E t \in Threads :
        \/ ClientsNew(t, MaxId, {<<"n">>}, {<<"a">>})
        \/ ClientsNewVehicle(t)
        \/ JobsNew(t, MaxId, {3}, {"abierto"}, {<<"a">>}, ClockInputs)
        \/ JobAddNote(t, MaxId, {2, 4}, {<<"x">>}, ClockInputs)
        \/ QuotesCreate(t, MaxId, RowInputs, {0}, {2}, {1},
                        {2}, {<<>>}, ClockInputs)
        \/ Dashboard(t)
        \/ ClientsList(t)
        \/ VehiclesList(t)
        \/ ApiVehicleInfo(t, {3})
        \/ JobsList(t)
        \/ JobDetail(t, {2, 4})
        \/ JobPrint(t, {2, 4})
        \/ QuotesList(t)
        \/ QuotePrint(t, {2, 4})
        \/ Acquire(t)
        \/ StoreInsert(t)
        \/ Return(t)

SpecViews == Init /\ [][ViewsNext]_vars

\* The services of a quote form: none, and two lines among blank ones.
ServicesInputs == {<<>>, <<" ", "s", "\n", " ", "\n", "t", " ">>}

\* Quotes with and without services, items and invoice, their texts and
\* their conversion to jobs, with requests served one at a time.
SeqTextNext ==
    \E t \in {1} :
        \/ QuotesCreate(t, MaxId, QuoteRowInputs, {0}, {3}, {0, 1},
                        {None}, ServicesInputs, ClockInputs)
        \/ QuoteAsTextCall(t, IdInputs)
        \/ QuoteToJob(t, MaxId + 1, IdInputs, ClockInputs)
        \/ QuoteToJobNote(t, ClockInputs)
        \/ Acquire(t)
        \/ StoreInsert(t)
        \/ Return(t)

SeqText == Init /\ [][SeqTextNext]_vars

----------------------------------------------------------------------------
\* Properties.

DocTables == TABLES \ {"seq"}

IdsOf(table) == {db[table][i].id : i \in DOMAIN db[table]}

StoredIds == UNION {IdsOf(table) : table \in DocTables}

\* C1: the ids that insert obtains from _next_id, in the order they are
\* handed out, are strictly increasing, so none repeats and the id of a
\* removed document is never handed out again.
IdsStrictlyIncreasing ==
    \A i, j \in DOMAIN issued : i < j => issued[i] < issued[j]

\* An id was handed out and stored, its document has since been removed, and
\* a later insert has stored a document under a greater id.
IdsAfterRemoval ==
    \E i, j \in DOMAIN issued :
        /\ i < j
        /\ issued[i] # SeqStart
        /\ issued[i] \notin StoredIds
        /\ \A t \in Threads : nid[t] # issued[i]
        /\ issued[j] \in StoredIds

\* C2: with inserts running concurrently, no two of them hold the same id
\* and no two stored documents, of one collection or of two, carry the
\* same id.
IdsUnique ==
    /\ \A t1, t2 \in Threads :
        (t1 # t2 /\ nid[t1] # None /\ nid[t2] # None) => nid[t1] # nid[t2]
    /\ \A t \in Threads : nid[t] # None => nid[t] \notin StoredIds
    /\ \A tb1, tb2 \in DocTables :
        \A i \in DOMAIN db[tb1], j \in DOMAIN db[tb2] :
            (tb1 # tb2 \/ i # j) => db[tb1][i].id # db[tb2][j].id

\* Two inserts are in flight at once, each with its id, while documents of
\* two collections are stored.
IdsConcurrentInserts ==
    /\ \E t1, t2 \in Threads :
        t1 # t2 /\ nid[t1] # None /\ nid[t2] # None
    /\ db["clients"] # <<>>
    /\ db["jobs"] # <<>>

Vehicles == db["vehicles"]

\* C3: no two stored vehicles have the same upper-cased plate, in any
\* state that concurrent clients_new, vehicles_new and vehicles_edit reach.
PlatesUnique ==
    \A i, j \in DOMAIN Vehicles :
        i # j => Upper(Vehicles[i].plate) # Upper(Vehicles[j].plate)

\* A creation request arrives whose plate is, but for case, the plate of a
\* stored vehicle.
DuplicateCreation(t) ==
    /\ pc[t] = "idle"
    /\ pc'[t] # "idle"
    /\ req'[t].op \in {"clients_new", "vehicles_new"}
    /\ \E i \in DOMAIN Vehicles :
        Upper(req'[t].raw) = Upper(Vehicles[i].plate)

\* The request ends rejected and the store is as it was.
RejectedUnchanged(t) ==
    /\ pc'[t] = "done"
    /\ res'[t] \in {"duplicate", "invalid"}
    /\ db' = db

\* vehicles_edit checks a plate that is the vehicle's own stored plate.
EditOwnPlate(t) ==
    /\ pc[t] = "ve_check"
    /\ \E i \in DOMAIN Vehicles :
        /\ Vehicles[i].id = req[t].vehicle_id
        /\ Vehicles[i].plate = req[t].plate

\* vehicles_edit checks a plate that another stored vehicle has.
EditOtherPlate(t) ==
    /\ pc[t] = "ve_check"
    /\ \E i \in DOMAIN Vehicles :
        /\ Vehicles[i].id # req[t].vehicle_id
        /\ Upper(Vehicles[i].plate) = req[t].plate

\* The update of vehicles_edit stores the form's values and ends it.
EditStored(t) ==
    /\ pc'[t] = "done"
    /\ res'[t] = "ok"
    /\ \A i \in DOMAIN db'["vehicles"] :
        db'["vehicles"][i].id = req[t].vehicle_id =>
            /\ db'["vehicles"][i].plate = req[t].plate
            /\ db'["vehicles"][i].client_id = req[t].client_id

\* C4: with requests served one at a time, a creation whose plate equals a
\* stored plate but for case is rejected and changes nothing; an edit that
\* keeps the vehicle's own plate passes the check and is stored; an edit to
\* the plate of another vehicle is rejected and changes nothing.
DuplicatePlateRejected ==
    [][\A t \in Threads :
        /\ DuplicateCreation(t) => RejectedUnchanged(t)
        /\ EditOwnPlate(t) => pc'[t] = "upd_lock"
        /\ (pc[t] = "upd_body" /\ req[t].op = "vehicles_edit") => EditStored(t)
        /\ EditOtherPlate(t) =>
            (pc'[t] = "done" /\ res'[t] = "duplicate" /\ db' = db)]_vars

\* An edit that keeps the vehicle's own plate has passed the check, with
\* another vehicle stored.
EditOwnPlatePassed ==
    \E t \in Threads :
        /\ pc[t] = "upd_lock"
        /\ req[t].op = "vehicles_edit"
        /\ Len(Vehicles) >= 2
        /\ \E i \in DOMAIN Vehicles :
            /\ Vehicles[i].id = req[t].vehicle_id
            /\ Vehicles[i].plate = req[t].plate

Clients == db["clients"]

Jobs == db["jobs"]

\* The store after a step of clients_delete(c) by thread t differs from the
\* store before it at most by client c, by vehicles of c and by jobs of the
\* vehicles that the deletion listed.
DeleteClientFrame(t) ==
    LET c == req[t].client_id
    IN /\ \A table \in {"users", "seq", "notes", "quotes"} :
            db'[table] = db[table]
       /\ SelectSeq(db'["clients"], LAMBDA x : x.id # c)
            = SelectSeq(Clients, LAMBDA x : x.id # c)
       /\ SelectSeq(db'["vehicles"], LAMBDA x : x.client_id # c)
            = SelectSeq(Vehicles, LAMBDA x : x.client_id # c)
       /\ SelectSeq(db'["jobs"], LAMBDA x : x.vehicle_id \notin IdsIn(vs[t]))
            = SelectSeq(Jobs, LAMBDA x : x.vehicle_id \notin IdsIn(vs[t]))

\* The store when clients_delete(c) returns: no client c, no vehicle of c,
\* no job of a vehicle that belonged to c.
DeleteClientDone(t) ==
    LET c == req[t].client_id
    IN /\ \A i \in DOMAIN db'["clients"] : db'["clients"][i].id # c
       /\ \A i \in DOMAIN db'["vehicles"] : db'["vehicles"][i].client_id # c
       /\ \A i \in DOMAIN db'["jobs"] :
            db'["jobs"][i].vehicle_id \notin IdsIn(vs[t])

\* C5: with requests served one at a time, when clients_delete(c) returns
\* the client, its vehicles and the jobs of those vehicles are absent, and
\* no step of the deletion changes a note, a quote or any other client,
\* vehicle or job.
ClientDeleteCascades ==
    [][\A t \in Threads :
        (req[t].op = "clients_delete") =>
            /\ DeleteClientFrame(t)
            /\ (pc[t] # "done" /\ pc'[t] = "done") => DeleteClientDone(t)]_vars

\* clients_delete has returned for a client that had two vehicles, each
\* with a job; a note of a deleted job is still stored.
ClientDeletedWithOrphans ==
    \E t \in Threads :
        /\ pc[t] = "done"
        /\ req[t].op = "clients_delete"
        /\ Len(vs[t]) >= 2
        /\ Len(js[t]) >= 1
        /\ \E i \in DOMAIN db["notes"] :
            /\ db["notes"][i].job_id \notin IdsIn(Jobs)
            /\ db["notes"][i].job_id \in Range(issued)

\* vehicles_delete(v) of thread t returns, v having been stored when the
\* request arrived.
DeleteVehicleReturns(t) ==
    /\ pc[t] = "vd_job"
    /\ pc'[t] = "done"
    /\ req[t].found

\* C6, as stated: when vehicles_delete(v) returns, vehicle v is absent and
\* no stored job has vehicle_id = v, also with jobs_new running concurrently.
VehicleDeleteLeavesNoJob ==
    [][\A t \in Threads :
        DeleteVehicleReturns(t) =>
            /\ \A i \in DOMAIN db'["vehicles"] :
                db'["vehicles"][i].id # req[t].vehicle_id
            /\ \A i \in DOMAIN db'["jobs"] :
                db'["jobs"][i].vehicle_id # req[t].vehicle_id]_vars

\* C6, amended: when vehicles_delete(v) returns, vehicle v is absent and no
\* job that the deletion listed is stored, and the removals of the deletion
\* leave the jobs of other vehicles as they were.
VehicleDeleteRemovesListedJobs ==
    [][\A t \in Threads :
        /\ DeleteVehicleReturns(t) =>
            /\ \A i \in DOMAIN db'["vehicles"] :
                db'["vehicles"][i].id # req[t].vehicle_id
            /\ IdsIn(js[t]) \cap IdsIn(db'["jobs"]) = {}
        /\ (req[t].op = "vehicles_delete" /\ pc[t] = "rm_body"
                /\ pc'[t] # "rm_body") =>
            SelectSeq(db'["jobs"],
                      LAMBDA x : x.vehicle_id # req[t].vehicle_id)
              = SelectSeq(Jobs, LAMBDA x : x.vehicle_id # req[t].vehicle_id)]_vars

\* vehicles_delete(v) has returned after removing a job it listed, while a
\* job that a concurrent jobs_new stored for v is in the store.
VehicleDeletedJobSurvives ==
    \E t \in Threads :
        /\ pc[t] = "done"
        /\ req[t].op = "vehicles_delete"
        /\ req[t].found
        /\ Len(js[t]) >= 1
        /\ \E i \in DOMAIN Jobs : Jobs[i].vehicle_id = req[t].vehicle_id

\* C7: every stored job whose status is not 'entregado' has a null
\* delivery_date.
DeliveryDateOnlyWhenDelivered ==
    \A i \in DOMAIN Jobs :
        Jobs[i].status # "entregado" => Jobs[i].delivery_date = None

\* C8: the update of job_change_status(job, 'entregado') stores status
\* 'entregado' together with a delivery_date, and no step gives a stored
\* job the status 'entregado' while leaving its delivery_date null.
DeliveredSetsDate ==
    [][/\ \A t \in Threads :
            (pc[t] = "upd_body" /\ pc'[t] = "done"
                /\ req[t].op = "job_change_status"
                /\ req[t].status = "entregado") =>
                \A k \in DOMAIN db'["jobs"] :
                    db'["jobs"][k].id = req[t].job_id =>
                        /\ db'["jobs"][k].status = "entregado"
                        /\ db'["jobs"][k].delivery_date \in Times
       /\ \A i \in DOMAIN Jobs, k \in DOMAIN db'["jobs"] :
            (Jobs[i].id = db'["jobs"][k].id
                /\ Jobs[i].status # "entregado"
                /\ db'["jobs"][k].status = "entregado") =>
                db'["jobs"][k].delivery_date # None]_vars

\* job_change_status(job, 'entregado') has returned and the job is stored as
\* delivered, with its date.
JobDelivered ==
    \E t \in Threads :
        /\ pc[t] = "done"
        /\ req[t].op = "job_change_status"
        /\ req[t].status = "entregado"
        /\ \E i \in DOMAIN Jobs :
            /\ Jobs[i].id = req[t].job_id
            /\ Jobs[i].status = "entregado"
            /\ Jobs[i].delivery_date \in Times

\* C9: the status of every stored job is one of the five statuses.
StatusInEnum == \A i \in DOMAIN Jobs : Jobs[i].status \in STATUS_BADGES

\* C10: quote_to_job on a stored quote whose vehicle_id or client_id is null
\* ends with the outcome 'missing' and leaves the whole store, with the jobs,
\* the notes and the counter, unchanged.
QuoteWithoutAssociationRejected ==
    [][\A t \in Threads :
        (/\ pc[t] = "idle"
         /\ pc'[t] # "idle"
         /\ req'[t].op = "quote_to_job"
         /\ \E i \in DOMAIN db["quotes"] :
                /\ db["quotes"][i].id = req'[t].quote_id
                /\ \/ db["quotes"][i].vehicle_id = None
                   \/ db["quotes"][i].client_id = None) =>
            (pc'[t] = "done" /\ res'[t] = "missing" /\ db' = db)]_vars

\* quote_to_job has been refused for a quote that names a vehicle but no
\* client.
QuoteRefused ==
    \E t \in Threads :
        /\ pc[t] = "done"
        /\ req[t].op = "quote_to_job"
        /\ res[t] = "missing"
        /\ \E i \in DOMAIN db["quotes"] :
            /\ db["quotes"][i].id = req[t].quote_id
            /\ db["quotes"][i].vehicle_id # None
            /\ db["quotes"][i].client_id = None

Quotes == db["quotes"]

Notes == db["notes"]

\* The stored quote that the quote_to_job request of thread t names.
QuoteOf(t) == get_("quotes", req[t].quote_id)[1]

\* The job insert of quote_to_job: one job is appended, built from the quote.
ConvertStoresJob(t) ==
    /\ Len(db'["jobs"]) = Len(Jobs) + 1
    /\ SubSeq(db'["jobs"], 1, Len(Jobs)) = Jobs
    /\ db'["notes"] = Notes
    /\ LET job == db'["jobs"][Len(Jobs) + 1]
       IN /\ job.vehicle_id = QuoteOf(t).vehicle_id
          /\ job.status = "abierto"
          /\ job.delivery_date = None
          /\ DOMAIN job.checklist = ChecklistKeys
          /\ Cardinality(ChecklistKeys) = 15
          /\ \A k \in ChecklistKeys : job.checklist[k] = 0
          /\ job.reason = <<"Cotizacion", req[t].quote_id>>
          /\ job.id = rv'[t]
    /\ pc'[t] = "q2j_note"

\* The note insert of quote_to_job: one note is appended, for the job that
\* the job insert stored, under a greater id.
ConvertStoresNote(t) ==
    /\ Len(db'["notes"]) = Len(Notes) + 1
    /\ SubSeq(db'["notes"], 1, Len(Notes)) = Notes
    /\ db'["jobs"] = Jobs
    /\ LET note == db'["notes"][Len(Notes) + 1]
       IN /\ note.job_id = rv[t]
          /\ note.job_id \in IdsIn(Jobs)
          /\ note.id > note.job_id
    /\ pc'[t] = "done"
    /\ res'[t] = "ok"

\* C11: quote_to_job on a stored quote that has a client_id and a vehicle_id
\* goes on to insert one job and then one note.  The job has the quote's
\* vehicle_id, status 'abierto', no delivery_date, the 15 checklist flags at
\* 0 and a reason that names the quote; the note has the job's id as job_id
\* and a greater id of its own.  No other step of the request changes the
\* jobs or the notes, and none changes the quotes.
QuoteToJobConverts ==
    [][\A t \in Threads :
        /\ (/\ pc[t] = "idle"
            /\ pc'[t] # "idle"
            /\ req'[t].op = "quote_to_job"
            /\ \E i \in DOMAIN Quotes :
                /\ Quotes[i].id = req'[t].quote_id
                /\ Quotes[i].vehicle_id # None
                /\ Quotes[i].client_id # None) =>
            (pc'[t] = "nid_lock" /\ call'[t].table = "jobs" /\ db' = db)
        /\ (req[t].op = "quote_to_job" /\ pc'[t] # pc[t]) =>
            /\ db'["quotes"] = Quotes
            /\ IF pc[t] = "ins_body" /\ call[t].table = "jobs"
               THEN ConvertStoresJob(t)
               ELSE IF pc[t] = "ins_body"
               THEN ConvertStoresNote(t)
               ELSE /\ db'["jobs"] = Jobs
                    /\ db'["notes"] = Notes
                    /\ pc[t] = "q2j_note" =>
                        (pc'[t] = "nid_lock" /\ call'[t].table = "notes")]_vars

\* quote_to_job has returned for a quote with a client and a vehicle: the job
\* and its note are stored.
QuoteConverted ==
    \E t \in Threads :
        /\ pc[t] = "done"
        /\ req[t].op = "quote_to_job"
        /\ res[t] = "ok"
        /\ \E i \in DOMAIN Notes, k \in DOMAIN Jobs :
            /\ Notes[i].id = rv[t]
            /\ Notes[i].job_id = Jobs[k].id
            /\ Jobs[k].reason = <<"Cotizacion", req[t].quote_id>>
            /\ Jobs[k].vehicle_id = QuoteOf(t).vehicle_id

\* The insert of quote_duplicate: one quote is appended, under an id that no
\* stored document has, with the items, require_invoice and totals of the
\* source.
DuplicateStored(t) ==
    /\ Len(db'["quotes"]) = Len(Quotes) + 1
    /\ SubSeq(db'["quotes"], 1, Len(Quotes)) = Quotes
    /\ \A table \in DocTables \ {"quotes"} : db'[table] = db[table]
    /\ LET new == db'["quotes"][Len(Quotes) + 1]
           src == QuoteOf(t)
       IN /\ new.items = src.items
          /\ new.require_invoice = src.require_invoice
          /\ new.subtotal = src.subtotal
          /\ new.igv = src.igv
          /\ new.total = src.total
          /\ new.id # src.id
          /\ new.id \notin StoredIds
    /\ pc'[t] = "done"
    /\ res'[t] = "ok"

\* C12: quote_duplicate on a stored quote inserts one quote whose items,
\* require_invoice, subtotal, igv and total are those of the source and whose
\* id is not the id of the source nor of any other stored document; the
\* source and every other stored quote stay as they are.  On an id that no
\* stored quote has, the request ends with nothing inserted.
DuplicateEqualsSource ==
    [][\A t \in Threads :
        /\ (pc[t] = "idle" /\ pc'[t] # "idle"
                /\ req'[t].op = "quote_duplicate") =>
            /\ db' = db
            /\ IF req'[t].quote_id \in IdsIn(Quotes)
               THEN pc'[t] = "nid_lock" /\ call'[t].table = "quotes"
               ELSE pc'[t] = "done" /\ res'[t] = "notfound"
        /\ (req[t].op = "quote_duplicate" /\ pc'[t] # pc[t]) =>
            IF pc[t] = "ins_body"
            THEN DuplicateStored(t)
            ELSE \A table \in DocTables : db'[table] = db[table]]_vars

\* quote_duplicate has returned for a quote of two items with invoice: the
\* copy is stored with the same total as the source.
QuoteDuplicated ==
    \E t \in Threads :
        /\ pc[t] = "done"
        /\ req[t].op = "quote_duplicate"
        /\ res[t] = "ok"
        /\ \E i \in DOMAIN Quotes :
            /\ Quotes[i].id = rv[t]
            /\ Len(Quotes[i].items) = 2
            /\ Quotes[i].igv > 0
            /\ Quotes[i].total = QuoteOf(t).total
            /\ Quotes[i].id > QuoteOf(t).id

\* quote_duplicate has returned for an id that no stored quote had.
QuoteDuplicateNotFound ==
    \E t \in Threads :
        /\ pc[t] = "done"
        /\ req[t].op = "quote_duplicate"
        /\ res[t] = "notfound"
        /\ Quotes # <<>>

\* C13: every stored quote has subtotal = round(sum of qty * unit_price),
\* igv = round(subtotal * igv_rate) with require_invoice and 0 without, and
\* total = round(subtotal + igv), all rounded to hundredths.
QuoteTotalsFromProducts ==
    \A i \in DOMAIN Quotes :
        LET q == Quotes[i]
        IN /\ q.subtotal = RoundDiv(SumProducts(q.items), Scale)
           /\ q.igv = IF q.require_invoice # 0
                      THEN RoundDiv(q.subtotal * igv_rate, Scale)
                      ELSE 0
           /\ q.total = q.subtotal + q.igv

\* The update of thread t, on an id that a document of the table has, changes
\* that document in the fields of the patch and nothing else.
UpdateChangesPatched(t) ==
    LET table == call[t].table
        patch == call[t].patch
    IN /\ \A other \in TABLES \ {table} : db'[other] = db[other]
       /\ Len(db'[table]) = Len(db[table])
       /\ \A i \in DOMAIN db[table] :
            IF db[table][i].id # call[t].id
            THEN db'[table][i] = db[table][i]
            ELSE /\ DOMAIN db'[table][i] = DOMAIN db[table][i] \cup DOMAIN patch
                 /\ \A f \in DOMAIN patch : db'[table][i][f] = patch[f]
                 /\ \A f \in DOMAIN db[table][i] \ DOMAIN patch :
                        db'[table][i][f] = db[table][i][f]

\* C14: update and remove with an id that no document of the collection has
\* go on to the caller's next position with every collection and the counter
\* as they were; update with an id that a document has changes the patched
\* fields of that document and leaves its other fields, the other documents
\* and the other collections as they were.
UpdateRemoveFrame ==
    [][\A t \in Threads :
        (pc[t] \in {"upd_body", "rm_body"} /\ pc'[t] # pc[t]) =>
            /\ pc'[t] = call[t].ret
            /\ IF call[t].id \notin IdsOf(call[t].table)
               THEN db' = db
               ELSE pc[t] = "upd_body" => UpdateChangesPatched(t)]_vars

\* job_change_status has returned for a stored job, which has the new status
\* and its vehicle_id, while another job is stored with the status it was
\* created with; the other thread is in a remove for an id that no vehicle
\* has.
JobPatchedOtherKept ==
    \E t, u \in Threads :
        /\ pc[t] = "done"
        /\ req[t].op = "job_change_status"
        /\ \E i, k \in DOMAIN Jobs :
            /\ Jobs[i].id = req[t].job_id
            /\ Jobs[i].status = "listo"
            /\ Jobs[i].vehicle_id = Jobs[k].vehicle_id
            /\ Jobs[k].status = "abierto"
        /\ pc[u] = "rm_body"
        /\ call[u].id \notin IdsOf(call[u].table)

\* C15: notes are append-only.  No step of any request, the removals of
\* clients_delete and vehicles_delete included, modifies or removes a stored
\* note: the notes after a step are the notes before it, followed by the
\* note the step inserted, if it inserted one.
NotesAppendOnly ==
    [][/\ Len(db'["notes"]) >= Len(Notes)
       /\ SubSeq(db'["notes"], 1, Len(Notes)) = Notes]_vars

\* clients_delete has returned after removing a job of a vehicle of the
\* client, and a note of that job is still stored.
NoteOutlivesJob ==
    \E t \in Threads :
        /\ pc[t] = "done"
        /\ req[t].op = "clients_delete"
        /\ js[t] # <<>>
        /\ \E i \in DOMAIN Notes :
            /\ Notes[i].job_id \in IdsIn(js[t])
            /\ Notes[i].job_id \notin IdsIn(Jobs)

\* C16: while no clients_delete is in progress, the client_id of every
\* stored vehicle is the id of a stored client, whatever client_id
\* vehicles_new and vehicles_edit are called with, also when vehicles_new
\* runs concurrently with clients_delete.
VehicleOwnerStored ==
    (\A t \in Threads : req[t].op # "clients_delete") =>
        \A i \in DOMAIN Vehicles : Vehicles[i].client_id \in IdsIn(Clients)

\* The threads inside a `with _db_lock:` block: in the read or the write of
\* _next_id, or in the table write of insert, update or remove.
InsideLock == {t \in Threads : pc[t] \in BodyPcs}

\* C17: at most one thread at a time is inside a mutating store step, and
\* that thread is the one that holds the lock.
MutualExclusion ==
    /\ Cardinality(InsideLock) <= 1
    /\ \A t \in InsideLock : lock = t
    /\ InsideLock = {} => lock = 0

\* A thread is inside _next_id while the other waits at the lock for the
\* table write of its insert, with the id it has been given.
WaitsAtLock ==
    \E t, u \in Threads :
        /\ pc[t] = "nid_write"
        /\ pc[u] = "ins_lock"
        /\ nid[u] # None
        /\ lock = t

\* C18, as stated: insert holds the lock from the allocation of the id to
\* the storing of the document, so that in every state the documents of
\* each collection are in strictly increasing id order.
InsertOrderById ==
    \A table \in DocTables :
        \A i, j \in DOMAIN db[table] :
            i < j => db[table][i].id < db[table][j].id

\* C18, amended: insert takes the lock once for the allocation of the id and
\* once more for the table write.  The table write appends the document, under
\* the id that was allocated, after the documents that the collection holds
\* by then, none of which has that id, and changes nothing else.
InsertAppendsInArrivalOrder ==
    [][\A t \in Threads :
        (pc[t] = "ins_body" /\ pc'[t] # pc[t]) =>
            /\ nid[t] \notin IdsOf(call[t].table)
            /\ db'[call[t].table] =
                 Append(db[call[t].table], Merge(call[t].doc, [id |-> nid[t]]))
            /\ \A other \in TABLES \ {call[t].table} : db'[other] = db[other]
            /\ rv'[t] = nid[t]]_vars

\* A collection holds a document stored before a document of a smaller id:
\* between the allocation of the smaller id and the storing of its document,
\* another thread's insert has allocated its id and stored its document.
StoredOutOfIdOrder ==
    \E table \in DocTables :
        \E i, j \in DOMAIN db[table] :
            i < j /\ db[table][i].id > db[table][j].id

\* No thread waits for the lock while it holds it, and the thread that holds
\* the lock is inside a `with _db_lock:` block, whose last step releases it.
LockDiscipline ==
    /\ \A t \in Threads : pc[t] \in LockPcs => lock # t
    /\ lock # 0 => pc[lock] \in BodyPcs

\* While a request is in progress, some thread can take a step.
NoDeadlock ==
    (\E t \in Threads : pc[t] # "idle") => \E u \in Threads : ENABLED Step(u)

\* C19: with the threads scheduled fairly and finitely many requests, every
\* wait for the lock ends with the lock acquired and every started request,
\* the multi-step clients_delete, vehicles_delete, quote_to_job and
\* clients_new included, reaches its return; the lock is never awaited by
\* the thread that holds it, its holder is always about to release it, and
\* no state is a deadlock.
EveryRequestCompletes ==
    /\ []LockDiscipline
    /\ []NoDeadlock
    /\ \A t \in Threads : (pc[t] \in LockPcs) ~> (pc[t] \in BodyPcs)
    /\ \A t \in Threads : (pc[t] # "idle") ~> (pc[t] = "done")

\* clients_delete has returned after removing a vehicle and a job, while the
\* other thread waits for the lock inside a request of its own.
CascadeDoneOtherWaiting ==
    \E t, u \in Threads :
        /\ pc[t] = "done"
        /\ req[t].op = "clients_delete"
        /\ vs[t] # <<>>
        /\ js[t] # <<>>
        /\ pc[u] \in LockPcs

\* Thread t takes the step that removes the document its deletion request
\* names, from the given table.
FirstRemoval(t, op, table) ==
    /\ pc[t] = "rm_body"
    /\ pc'[t] # pc[t]
    /\ req[t].op = op
    /\ call[t].table = table

\* C20: the cascades are not atomic.  The step of vehicles_delete(v) that
\* removes a stored vehicle v with jobs leaves those jobs stored and frees
\* the lock with the request still in progress: v is absent while a job with
\* vehicle_id = v is stored.  Likewise the step of clients_delete(c) that
\* removes a stored client c with vehicles leaves those vehicles stored.
CascadeNotAtomic ==
    [][\A t \in Threads :
        /\ (/\ FirstRemoval(t, "vehicles_delete", "vehicles")
            /\ req[t].vehicle_id \in IdsIn(Vehicles)
            /\ JobsListed(req[t].vehicle_id) # <<>>) =>
            /\ req[t].vehicle_id \notin IdsIn(db'["vehicles"])
            /\ db'["jobs"] = Jobs
            /\ lock' = 0
            /\ pc'[t] = "vd_list"
        /\ (/\ FirstRemoval(t, "clients_delete", "clients")
            /\ req[t].client_id \in IdsIn(Clients)
            /\ VehiclesOfClient(req[t].client_id) # <<>>) =>
            /\ req[t].client_id \notin IdsIn(db'["clients"])
            /\ db'["vehicles"] = Vehicles
            /\ lock' = 0
            /\ pc'[t] = "cd_list"]_vars

\* Two deletions are between their steps at once, with the lock free: the
\* vehicle of one is absent while a job of it is stored, and the client of
\* the other is absent while the vehicle that clients_new stored with it is
\* stored.
CascadesHalfDone ==
    \E t, u \in Threads :
        /\ lock = 0
        /\ pc[t] = "vd_list"
        /\ req[t].found
        /\ req[t].vehicle_id \notin IdsIn(Vehicles)
        /\ \E i \in DOMAIN Jobs : Jobs[i].vehicle_id = req[t].vehicle_id
        /\ pc[u] = "cd_list"
        /\ req[u].client_id \notin IdsIn(Clients)
        /\ \E i \in DOMAIN Vehicles :
            /\ Vehicles[i].client_id = req[u].client_id
            /\ Vehicles[i].plate = <<"A">>

\* The documents of a table whose fields equal all the pairs of a map; for
\* the empty map, all of them.
DocsMatching(table, where) ==
    SelectSeq(db[table],
              LAMBDA x : \A k \in DOMAIN where :
                             k \in DOMAIN x /\ x[k] = where[k])

QuotesOfJob(job_id) == {i \in DOMAIN Quotes : Quotes[i].job_id = job_id}

\* The quote at position i is the latest of its job: none of the job's quotes
\* has a greater created_at, and none of the same created_at was stored
\* before it.
IsLatest(i) ==
    \A k \in QuotesOfJob(Quotes[i].job_id) :
        /\ Quotes[k].created_at <= Quotes[i].created_at
        /\ Quotes[k].created_at = Quotes[i].created_at => i <= k

\* C22: _latest_quote_for_job returns None when no stored quote has the
\* job_id and otherwise a quote of that job of greatest created_at, among
\* those of greatest created_at the one stored first.
LatestQuoteReturned ==
    \A t \in Threads :
        (pc[t] = "done" /\ req[t].op = "job_print" /\ res[t] = "ok") =>
            IF QuotesOfJob(req[t].job_id) = {}
            THEN req[t].quote = <<>>
            ELSE \E i \in QuotesOfJob(req[t].job_id) :
                    /\ req[t].quote = <<Quotes[i]>>
                    /\ IsLatest(i)

\* job_print has read the latest quote of a job with three quotes: two of
\* the greatest created_at, of which the one stored first is returned, and
\* one of a smaller created_at stored before them.
LatestAmongTies ==
    \E t \in Threads :
        /\ pc[t] = "done"
        /\ req[t].op = "job_print"
        /\ res[t] = "ok"
        /\ \E i, k, m \in QuotesOfJob(req[t].job_id) :
            /\ m < i
            /\ i < k
            /\ Quotes[m].created_at < Quotes[i].created_at
            /\ Quotes[k].created_at = Quotes[i].created_at
            /\ req[t].quote = <<Quotes[i]>>
            /\ Quotes[i].total # Quotes[k].total

\* The stored job that a request names.
JobOf(t) ==
    Jobs[CHOOSE i \in DOMAIN Jobs : Jobs[i].id = req[t].job_id]

\* The positions of the stored notes of a job.
NotesOfJob(job_id) == {i \in DOMAIN Notes : Notes[i].job_id = job_id}

\* The tasks are the contents of the notes of the job, each note once, in an
\* order of ascending created_at.
TasksAreNotesAscending(tasks, job_id) ==
    /\ Len(tasks) = Cardinality(NotesOfJob(job_id))
    /\ \E f \in [DOMAIN tasks -> NotesOfJob(job_id)] :
        /\ \A p, r \in DOMAIN tasks : p # r => f[p] # f[r]
        /\ \A p \in DOMAIN tasks : tasks[p] = Notes[f[p]].content
        /\ \A p, r \in DOMAIN tasks :
            p < r => Notes[f[p]].created_at <= Notes[f[r]].created_at

\* C23: job_print on a stored job takes its tasks from the non-empty lines of
\* the job's description, stripped of the blanks around them, and only when
\* the description has no such line from the contents of the job's notes in
\* ascending created_at order; its subtotal, igv and total are those of the
\* latest quote of the job, and 0 when the job has no quote.
JobPrintTasksAndAmounts ==
    \A t \in Threads :
        (pc[t] = "done" /\ req[t].op = "job_print" /\ res[t] = "ok") =>
            LET lines == StrippedLines(JobOf(t).description)
                mine == QuotesOfJob(req[t].job_id)
            IN /\ IF lines # <<>>
                  THEN /\ req[t].tasks = lines
                       /\ \A p \in DOMAIN lines :
                            /\ lines[p] # <<>>
                            /\ Head(lines[p]) \notin Space
                            /\ lines[p][Len(lines[p])] \notin Space
                            /\ "\n" \notin Range(lines[p])
                  ELSE TasksAreNotesAscending(req[t].tasks, req[t].job_id)
               /\ IF mine = {}
                  THEN /\ req[t].subtotal = 0
                       /\ req[t].igv = 0
                       /\ req[t].total = 0
                  ELSE \E i \in mine :
                        /\ IsLatest(i)
                        /\ req[t].subtotal = Quotes[i].subtotal
                        /\ req[t].igv = Quotes[i].igv
                        /\ req[t].total = Quotes[i].total

\* job_print has returned for a job without description, with two notes of
\* which the one stored last has the smaller created_at and comes first in
\* the tasks, and with a quote of a positive total.
PrintedFromNotes ==
    \E t \in Threads :
        /\ pc[t] = "done"
        /\ req[t].op = "job_print"
        /\ res[t] = "ok"
        /\ JobOf(t).description = <<>>
        /\ \E i, k \in NotesOfJob(req[t].job_id) :
            /\ i < k
            /\ Notes[k].created_at < Notes[i].created_at
            /\ req[t].tasks = <<Notes[k].content, Notes[i].content>>
            /\ Notes[k].content # Notes[i].content
        /\ req[t].total > 0

\* job_print has returned for a job with notes whose description has two
\* lines: the tasks are the two lines.
PrintedFromDescription ==
    \E t \in Threads :
        /\ pc[t] = "done"
        /\ req[t].op = "job_print"
        /\ res[t] = "ok"
        /\ NotesOfJob(req[t].job_id) # {}
        /\ Len(req[t].tasks) = 2
        /\ req[t].tasks = StrippedLines(JobOf(t).description)
        /\ QuotesOfJob(req[t].job_id) = {}

\* The handlers that only show the store.
ViewOps ==
    {"dashboard", "clients_list", "vehicles_list", "jobs_list", "job_detail",
     "job_print", "quotes_list", "quote_print", "api_vehicle_info"}

\* C24: dashboard, clients_list, vehicles_list, jobs_list, job_detail,
\* job_print, quotes_list, quote_print and api_vehicle_info leave every
\* collection and the ID counter as they are, also where they assign derived
\* fields on the documents they read.
ViewsChangeNothing ==
    [][\A t \in Threads :
        (pc[t] = "idle" /\ pc'[t] # "idle" /\ req'[t].op \in ViewOps) =>
            /\ \A table \in TABLES : db'[table] = db[table]
            /\ NextIdValue(db') = NextIdValue(db)
            /\ issued' = issued]_vars

\* clients_list has answered with a client that it counted a vehicle for,
\* and the stored client has no vehicles_count.
ClientsListed ==
    \E t \in Threads :
        /\ pc[t] = "done"
        /\ req[t].op = "clients_list"
        /\ \E c \in req[t].rows : c.vehicles_count > 0
        /\ Clients # <<>>
        /\ \A i \in DOMAIN Clients : "vehicles_count" \notin DOMAIN Clients[i]

\* The lines of text that thread t has made of the quote of its request: the
\* text that a call of _quote_as_text returned or, in quote_to_job, the
\* description of the job after its two heading lines.
TextLines(t) ==
    IF req[t].op = "quote_as_text"
    THEN SplitLines(req[t].text)
    ELSE LET lines == SplitLines(call[t].doc.description)
         IN SubSeq(lines, 3, Len(lines))

\* The text of quote q has its block of lines and then its three last lines:
\* the block of the services when there are services, else the block of the
\* items when there are items, else none; then the subtotal, the tax, which
\* is the line without invoice exactly when require_invoice is false, and
\* the total.
TextShape(lines, q) ==
    LET n == Len(lines)
        block == SubSeq(lines, 1, n - 3)
    IN /\ n >= 3
       /\ lines[n - 2] = <<"Subtotal:", " ", "S/", " ">> \o Fmt2(q.subtotal)
       /\ lines[n] = <<"TOTAL:", " ", "S/", " ">> \o Fmt2(q.total)
       /\ (lines[n - 1] = NoInvoiceLine) <=> (q.require_invoice = 0)
       /\ q.require_invoice # 0 =>
            lines[n - 1] = <<"IGV", " ", "18%:", " ", "S/", " ">> \o Fmt2(q.igv)
       /\ IF q.services_lines # <<>>
          THEN /\ Len(block) = Len(q.services_lines) + 2
               /\ block[1] = ServicesHeader
               /\ \A i \in DOMAIN q.services_lines :
                    block[i + 1] = <<"-", " ">> \o q.services_lines[i]
               /\ block[Len(block)] = <<>>
               /\ ItemsHeader \notin Range(lines)
          ELSE IF q.items # <<>>
          THEN /\ Len(block) = Len(q.items) + 2
               /\ block[1] = ItemsHeader
               /\ \A i \in DOMAIN q.items :
                    /\ SubSeq(block[i + 1], 1, 2 + Len(q.items[i].desc))
                         = <<"-", " ">> \o q.items[i].desc
                    /\ SubSeq(block[i + 1],
                              Len(block[i + 1]) - Len(Fmt2(q.items[i].total)) + 1,
                              Len(block[i + 1]))
                         = Fmt2(q.items[i].total)
               /\ block[Len(block)] = <<>>
               /\ ServicesHeader \notin Range(lines)
          ELSE block = <<>>

\* C25: the text that _quote_as_text makes of a quote is the block of its
\* services when services_lines is not empty, otherwise the block of its
\* items when items is not empty, never both and neither when both are
\* empty, followed by exactly three lines: subtotal, tax and total, the tax
\* line being the fixed line without invoice exactly when require_invoice is
\* false.
QuoteTextShape ==
    \A t \in Threads :
        /\ (pc[t] = "done" /\ req[t].op = "quote_as_text" /\ res[t] = "ok") =>
            TextShape(TextLines(t), QuoteOf(t))
        /\ (req[t].op = "quote_to_job" /\ call[t].kind = "insert"
                /\ call[t].table = "jobs") =>
            TextShape(TextLines(t), QuoteOf(t))

\* _quote_as_text has returned the text of a quote with two services, an
\* item of 50.00 and invoice: the heading of the services, the two services,
\* an empty line, and the three last lines, the total being 59.00.
TextOfServices ==
    \E t \in Threads :
        /\ pc[t] = "done"
        /\ req[t].op = "quote_as_text"
        /\ res[t] = "ok"
        /\ Len(QuoteOf(t).services_lines) = 2
        /\ QuoteOf(t).items # <<>>
        /\ QuoteOf(t).require_invoice # 0
        /\ Len(TextLines(t)) = 7
        /\ TextLines(t)[2] = <<"-", " ", "s">>
        /\ TextLines(t)[7] = <<"TOTAL:", " ", "S/", " ", "5", "9", ".", "0", "0">>

\* _quote_as_text has returned the text of a quote without services and
\* without items: three lines, the second the line without invoice.
TextOfNothing ==
    \E t \in Threads :
        /\ pc[t] = "done"
        /\ req[t].op = "quote_as_text"
        /\ res[t] = "ok"
        /\ QuoteOf(t).services_lines = <<>>
        /\ QuoteOf(t).items = <<>>
        /\ Len(TextLines(t)) = 3
        /\ TextLines(t)[2] = NoInvoiceLine

\* quote_to_job has stored a job whose description is the heading, an empty
\* line and the text of a quote of two items.
TextInDescription ==
    \E i \in DOMAIN Jobs :
        LET lines == SplitLines(Jobs[i].description)
        IN /\ Len(lines) = 9
           /\ lines[2] = <<>>
           /\ lines[3] = ItemsHeader

====
